---- MODULE Spec2Model ----
(***************************************************************************)
(* Smart-Resume-Parser: the text-to-structure extraction engine            *)
(* (app/services/resume_parser.py) and the scoring engine                  *)
(* (app/services/resume_scorer.py), and the upload route that feeds them   *)
(* (app/api/routes.py).                                                    *)
(*                                                                         *)
(* Text is a TLA+ string, i.e. a sequence of characters.  Python's None is *)
(* the empty tuple and a present value v is the one-element tuple <<v>>.   *)
(***************************************************************************)
EXTENDS Integers, Sequences, FiniteSets, TLC

VARIABLES text, doc, resume, report, pc, upload, response

vars == <<text, doc, resume, report, pc, upload, response>>

-----------------------------------------------------------------------------
(* Optional values and Python truthiness                                   *)

None == <<>>

Some(v) == <<v>>

\* bool(x) for x : str | None
Truthy(o) == o # None /\ o[1] # ""

\* (x or "")
OrEmpty(o) == IF Truthy(o) THEN o[1] ELSE ""

Min(a, b) == IF a <= b THEN a ELSE b

-----------------------------------------------------------------------------
(* Characters and strings                                                  *)

CharAt(s, i) == SubSeq(s, i, i)

LowerChars == "abcdefghijklmnopqrstuvwxyz"

UpperChars == "ABCDEFGHIJKLMNOPQRSTUVWXYZ"

\* the characters of a string, as a set
Chars(s) == {CharAt(s, k) : k \in 1..Len(s)}

\* c.lower() for each upper-case letter c
LowerMap == [c \in Chars(UpperChars) |->
                CharAt(LowerChars, CHOOSE k \in 1..26 : CharAt(UpperChars, k) = c)]

\* c.upper() for each lower-case letter c
UpperMap == [c \in Chars(LowerChars) |->
                CharAt(UpperChars, CHOOSE k \in 1..26 : CharAt(LowerChars, k) = c)]

\* c.lower() for one character
LowerChar(c) == IF c \in DOMAIN LowerMap THEN LowerMap[c] ELSE c

\* c.upper() for one character
UpperChar(c) == IF c \in DOMAIN UpperMap THEN UpperMap[c] ELSE c

RECURSIVE Lower(_)
\* str.lower()
Lower(s) ==
    IF s = "" THEN ""
    ELSE IF Len(s) = 1 THEN LowerChar(s)
    ELSE LET h == Len(s) \div 2
         IN  Lower(SubSeq(s, 1, h)) \o Lower(SubSeq(s, h + 1, Len(s)))

\* sub in s
Contains(s, sub) ==
    \E i \in 1..(Len(s) - Len(sub) + 1) : SubSeq(s, i, i + Len(sub) - 1) = sub

RECURSIVE Repeat(_, _)
\* s * n
Repeat(s, n) ==
    IF n <= 0 THEN ""
    ELSE IF n = 1 THEN s
    ELSE Repeat(s, n \div 2) \o Repeat(s, n - n \div 2)

RECURSIVE LStrip(_, _)
\* str.lstrip(chars)
LStrip(s, chars) ==
    IF s # "" /\ Contains(chars, Head(s)) THEN LStrip(Tail(s), chars) ELSE s

RECURSIVE RStrip(_, _)
\* str.rstrip(chars)
RStrip(s, chars) ==
    IF s # "" /\ Contains(chars, CharAt(s, Len(s)))
    THEN RStrip(SubSeq(s, 1, Len(s) - 1), chars)
    ELSE s

\* the whitespace characters (\s, str.strip, str.split)
Space == " \t\n\r\f"

Digits == "0123456789"

\* \w: letters, digits and the underscore
Word == LowerChars \o UpperChars \o Digits \o "_"

\* str.strip()
Strip(s) == RStrip(LStrip(s, Space), Space)

\* text[start:end] for 1-based positions start <= i < end
Slice(s, start, end) ==
    IF start >= end THEN "" ELSE SubSeq(s, start, Min(end, Len(s) + 1) - 1)

\* the least i >= from with s[i .. ] starting with sep, or 0
RECURSIVE Find(_, _, _)
Find(s, sep, from) ==
    IF from + Len(sep) - 1 > Len(s) THEN 0
    ELSE IF SubSeq(s, from, from + Len(sep) - 1) = sep THEN from
    ELSE Find(s, sep, from + 1)

RECURSIVE SplitOn(_, _)
\* str.split(sep)
SplitOn(s, sep) ==
    LET i == Find(s, sep, 1)
    IN  IF i = 0 THEN <<s>>
        ELSE <<SubSeq(s, 1, i - 1)>> \o SplitOn(SubSeq(s, i + Len(sep), Len(s)), sep)

\* the glyphs outside ASCII that the parser names, written as ASCII characters
\* that the texts of the model do not otherwise contain
Bullet == "^"

BlackCircle == "{"

WhiteCircle == "}"

EnDash == "="

EmDash == "~"

-----------------------------------------------------------------------------
(* Python's re: a pattern is a tree; Ends lists, in the order in which the *)
(* backtracking matcher tries them, the positions at which a match of the  *)
(* pattern that starts at position i can end.  ic is re.IGNORECASE.        *)

(* Each pattern also carries what the matcher's scan for a start position   *)
(* uses: first, the characters with which a non-empty match can begin, and *)
(* null, whether the pattern can match the empty string; first1 and null1  *)
(* are the same at position 1, where ^ matches.                            *)

Lit(s) ==
    [t |-> "lit", s |-> s,
     first |-> IF s = "" THEN {} ELSE {CharAt(s, 1)},
     first1 |-> IF s = "" THEN {} ELSE {CharAt(s, 1)},
     null |-> s = "", null1 |-> s = ""]

\* [...]: one of the characters of s
Set(s) ==
    [t |-> "set", cs |-> Chars(s), first |-> Chars(s), first1 |-> Chars(s),
     null |-> FALSE, null1 |-> FALSE]

RECURSIVE CatFirst(_, _)
\* the first characters of a concatenation, at position 1 or elsewhere
CatFirst(rs, one) ==
    IF rs = <<>> THEN {}
    ELSE LET h == Head(rs)
         IN  (IF one THEN h.first1 ELSE h.first)
             \cup (IF (IF one THEN h.null1 ELSE h.null)
                   THEN CatFirst(Tail(rs), one) ELSE {})

Cat(rs) ==
    [t |-> "cat", rs |-> rs,
     first |-> CatFirst(rs, FALSE), first1 |-> CatFirst(rs, TRUE),
     null |-> \A k \in DOMAIN rs : rs[k].null,
     null1 |-> \A k \in DOMAIN rs : rs[k].null1]

Alt(rs) ==
    [t |-> "alt", rs |-> rs,
     first |-> UNION {rs[k].first : k \in DOMAIN rs},
     first1 |-> UNION {rs[k].first1 : k \in DOMAIN rs},
     null |-> \E k \in DOMAIN rs : rs[k].null,
     null1 |-> \E k \in DOMAIN rs : rs[k].null1]

\* r{lo,hi} with hi = None for no upper limit, greedy or lazy
Repeated(r, lo, hi, greedy) ==
    [t |-> "rep", r |-> r, lo |-> lo, hi |-> hi, greedy |-> greedy,
     first |-> r.first, first1 |-> r.first1,
     null |-> lo = 0 \/ r.null, null1 |-> lo = 0 \/ r.null1]

\* r{lo,hi}
Rep(r, lo, hi) == Repeated(r, lo, Some(hi), TRUE)

\* r?
Opt(r) == Rep(r, 0, 1)

\* r*
Star(r) == Repeated(r, 0, None, TRUE)

\* r+
Plus(r) == Repeated(r, 1, None, TRUE)

\* r+?
PlusLazy(r) == Repeated(r, 1, None, FALSE)

\* ^
Bol == [t |-> "bol", first |-> {}, first1 |-> {}, null |-> FALSE, null1 |-> TRUE]

\* $
Eol == [t |-> "eol", first |-> {}, first1 |-> {}, null |-> TRUE, null1 |-> TRUE]

\* c matches a character of the class under the flag
InClass(c, cs, ic) ==
    c \in cs \/ (ic /\ (LowerChar(c) \in cs \/ UpperChar(c) \in cs))

RECURSIVE LitAt(_, _, _, _)
\* the literal is read at position i
LitAt(lit, ic, s, i) ==
    \/ lit = ""
    \/ /\ i <= Len(s)
       /\ IF ic THEN LowerChar(Head(lit)) = LowerChar(CharAt(s, i))
                ELSE Head(lit) = CharAt(s, i)
       /\ LitAt(Tail(lit), ic, s, i + 1)

RECURSIVE Ends(_, _, _, _)
RECURSIVE EndsFromAll(_, _, _, _)
RECURSIVE CatEnds(_, _, _, _)
RECURSIVE AltEnds(_, _, _, _)
RECURSIVE RepEnds(_, _, _, _, _)
RECURSIVE RepEndsFromAll(_, _, _, _, _)

Ends(re, ic, s, i) ==
    CASE re.t = "lit" ->
            IF LitAt(re.s, ic, s, i) THEN <<i + Len(re.s)>> ELSE <<>>
      [] re.t = "set" ->
            IF i <= Len(s) /\ InClass(CharAt(s, i), re.cs, ic) THEN <<i + 1>> ELSE <<>>
      [] re.t = "cat" -> CatEnds(re.rs, ic, s, <<i>>)
      [] re.t = "alt" -> AltEnds(re.rs, ic, s, i)
      [] re.t = "rep" -> RepEnds(re, ic, s, i, 0)
      [] re.t = "bol" -> IF i = 1 THEN <<i>> ELSE <<>>
      [] re.t = "eol" ->
            IF i = Len(s) + 1 \/ (i = Len(s) /\ CharAt(s, i) = "\n")
            THEN <<i>> ELSE <<>>

\* the ends of re from each of the positions in turn
EndsFromAll(re, ic, s, starts) ==
    IF starts = <<>> THEN <<>>
    ELSE Ends(re, ic, s, Head(starts)) \o EndsFromAll(re, ic, s, Tail(starts))

CatEnds(rs, ic, s, starts) ==
    IF rs = <<>> \/ starts = <<>> THEN starts
    ELSE CatEnds(Tail(rs), ic, s, EndsFromAll(Head(rs), ic, s, starts))

AltEnds(rs, ic, s, i) ==
    IF rs = <<>> THEN <<>>
    ELSE Ends(Head(rs), ic, s, i) \o AltEnds(Tail(rs), ic, s, i)

\* k repetitions are matched and the next starts at i
RepEnds(re, ic, s, i, k) ==
    LET nexts == SelectSeq(Ends(re.r, ic, s, i), LAMBDA e : e > i)
        more == IF re.hi = None \/ k < re.hi[1]
                THEN RepEndsFromAll(re, ic, s, nexts, k + 1)
                ELSE <<>>
        here == IF k >= re.lo THEN <<i>> ELSE <<>>
    IN  IF re.greedy THEN more \o here ELSE here \o more

RepEndsFromAll(re, ic, s, starts, k) ==
    IF starts = <<>> THEN <<>>
    ELSE RepEnds(re, ic, s, Head(starts), k)
         \o RepEndsFromAll(re, ic, s, Tail(starts), k)

\* a match of re can start at position i only if this holds
MayStart(re, ic, s, i) ==
    IF i = 1
    THEN re.null1 \/ (1 <= Len(s) /\ InClass(CharAt(s, 1), re.first1, ic))
    ELSE re.null \/ (i <= Len(s) /\ InClass(CharAt(s, i), re.first, ic))

RECURSIVE SearchIn(_, _, _, _, _, _)
\* the match at the first of the positions cands[lo..hi] that has one, or None
SearchIn(re, ic, s, cands, lo, hi) ==
    IF lo > hi THEN None
    ELSE IF lo = hi
    THEN LET e == Ends(re, ic, s, cands[lo])
         IN  IF e # <<>> THEN <<cands[lo], Head(e)>> ELSE None
    ELSE LET mid == (lo + hi) \div 2
             left == SearchIn(re, ic, s, cands, lo, mid)
         IN  IF left # None THEN left ELSE SearchIn(re, ic, s, cands, mid + 1, hi)

\* re.search from position i on: <<start, end>> of the first match, or None;
\* cands are the positions from i on at which a match can start, in order
SearchFrom(re, ic, s, i) ==
    LET cands == SelectSeq([j \in 1..(Len(s) + 2 - i) |-> j + i - 1],
                           LAMBDA j : MayStart(re, ic, s, j))
    IN  SearchIn(re, ic, s, cands, 1, Len(cands))

\* re.search(pattern, s)
Search(re, ic, s) == SearchFrom(re, ic, s, 1)

\* match.group()
Group(s, m) == Slice(s, m[1], m[2])

RECURSIVE FindAllFrom(_, _, _, _)
\* re.finditer: the matches of the pattern from left to right, not overlapping
FindAllFrom(re, ic, s, i) ==
    LET m == SearchFrom(re, ic, s, i)
    IN  IF m = None THEN <<>>
        ELSE <<m>> \o FindAllFrom(re, ic, s, IF m[2] > m[1] THEN m[2] ELSE m[2] + 1)

FindAll(re, ic, s) == FindAllFrom(re, ic, s, 1)

RECURSIVE Between(_, _, _)
\* the pieces of s before, between and after the matches ms, from position i
Between(s, ms, i) ==
    IF ms = <<>> THEN <<Slice(s, i, Len(s) + 1)>>
    ELSE <<Slice(s, i, Head(ms)[1])>> \o Between(s, Tail(ms), Head(ms)[2])

\* re.split(pattern, s)
Split(re, ic, s) == Between(s, FindAll(re, ic, s), 1)

RECURSIVE Join(_, _)
\* sep.join(parts)
Join(parts, sep) ==
    IF parts = <<>> THEN ""
    ELSE IF Len(parts) = 1 THEN parts[1]
    ELSE parts[1] \o sep \o Join(Tail(parts), sep)

-----------------------------------------------------------------------------
(* app/models/schemas.py                                                   *)

ContactInfo ==
    [name |-> None, email |-> None, phone |-> None, linkedin |-> None,
     location |-> None]

WorkExperience ==
    [company |-> None, title |-> None, start_date |-> None, end_date |-> None,
     description |-> None, highlights |-> <<>>]

Education ==
    [institution |-> None, degree |-> None, field_of_study |-> None,
     start_date |-> None, end_date |-> None, gpa |-> None]

ParsedResume ==
    [contact |-> ContactInfo, summary |-> None, skills |-> <<>>,
     experience |-> <<>>, education |-> <<>>, certifications |-> <<>>,
     languages |-> <<>>, raw_text |-> None]

-----------------------------------------------------------------------------
(* app/services/resume_scorer.py                                           *)

WEIGHTS ==
    [contact |-> 15, summary |-> 10, skills |-> 20, experience |-> 30,
     education |-> 15, certifications |-> 5, languages |-> 5]

BONUSES ==
    [many_skills |-> 5, senior_exp |-> 5, advanced_degree |-> 5,
     certifications |-> 3, complete_contact |-> 2]

\* the order in which score() fills the scores dict
SectionOrder ==
    <<"contact", "summary", "skills", "experience", "education",
      "certifications", "languages">>

RECURSIVE SumSeq(_)
SumSeq(q) == IF q = <<>> THEN 0 ELSE Head(q) + SumSeq(Tail(q))

\* contact_fields: the number of truthy fields among name, email, phone, linkedin
ContactFields(c) ==
    (IF Truthy(c.name) THEN 1 ELSE 0) + (IF Truthy(c.email) THEN 1 ELSE 0)
    + (IF Truthy(c.phone) THEN 1 ELSE 0) + (IF Truthy(c.linkedin) THEN 1 ELSE 0)

ContactScore(c) ==
    LET contact_score ==
            (IF Truthy(c.name) THEN 5 ELSE 0) + (IF Truthy(c.email) THEN 5 ELSE 0)
            + (IF Truthy(c.phone) THEN 3 ELSE 0)
            + (IF Truthy(c.linkedin) THEN 2 ELSE 0)
    IN  Min(contact_score, WEIGHTS.contact)

SummaryScore(summary) ==
    IF Truthy(summary)
    THEN LET length == Len(summary[1])
         IN  IF length >= 200 THEN 10
             ELSE IF length >= 100 THEN 7
             ELSE IF length >= 50 THEN 5
             ELSE 3
    ELSE 0

\* SkillsScore with each step of the ladder taken at its count only
SkillsScore_exactCounts(skills_count) ==
    IF skills_count = 10 THEN 20
    ELSE IF skills_count = 7 THEN 15
    ELSE IF skills_count = 4 THEN 10
    ELSE IF skills_count = 1 THEN 5
    ELSE 0

SkillsScore(skills_count) ==
    IF skills_count >= 10 THEN 20
    ELSE IF skills_count >= 7 THEN 15
    ELSE IF skills_count >= 4 THEN 10
    ELSE IF skills_count >= 1 THEN 5
    ELSE 0

\* IsDetailed without the test of the company
IsDetailed_withoutCompany(exp) ==
    /\ Truthy(exp.title)
    /\ (Truthy(exp.description) \/ exp.highlights # <<>>)

\* exp.title and exp.company and (exp.description or exp.highlights)
IsDetailed(exp) ==
    /\ Truthy(exp.title)
    /\ Truthy(exp.company)
    /\ (Truthy(exp.description) \/ exp.highlights # <<>>)

\* exp_with_details
CountDetailed(experience) ==
    Cardinality({i \in DOMAIN experience : IsDetailed(experience[i])})

ExperienceScore(exp_count, exp_with_details) ==
    IF exp_count >= 3 /\ exp_with_details >= 2 THEN 30
    ELSE IF exp_count >= 2 /\ exp_with_details >= 1 THEN 22
    ELSE IF exp_count >= 1 THEN 15
    ELSE 0

\* edu_with_degree
CountWithDegree(education) ==
    Cardinality({i \in DOMAIN education : Truthy(education[i].degree)})

EducationScore(edu_count, edu_with_degree) ==
    IF edu_count >= 1 /\ edu_with_degree >= 1 THEN 15
    ELSE IF edu_count >= 1 THEN 10
    ELSE 0

\* two points a certification, without the cap
CertScore_uncapped(cert_count) == cert_count * 2

CertScore(cert_count) == Min(cert_count * 2, 5)

LangScore(lang_count) == Min(lang_count * 2, 5)

advanced_degrees == <<"master", "mba", "ph.d", "phd", "doctorate">>

\* the degree compared as written, without .lower()
HasAdvanced_caseSensitive(education) ==
    \E i \in DOMAIN education :
        \E k \in DOMAIN advanced_degrees :
            Contains(OrEmpty(education[i].degree), advanced_degrees[k])

HasAdvanced(education) ==
    \E i \in DOMAIN education :
        \E k \in DOMAIN advanced_degrees :
            Contains(Lower(OrEmpty(education[i].degree)), advanced_degrees[k])

\* the keys of the bonuses dict
BonusKeys(skills_count, exp_count, has_advanced, cert_count, contact_fields) ==
    (IF skills_count >= 10 THEN {"many_skills"} ELSE {})
    \cup (IF exp_count >= 5 THEN {"senior_exp"} ELSE {})
    \cup (IF has_advanced THEN {"advanced_degree"} ELSE {})
    \cup (IF cert_count >= 1 THEN {"certifications"} ELSE {})
    \cup (IF contact_fields >= 4 THEN {"complete_contact"} ELSE {})

\* the senior bonus given from 4 entries on
BonusTotal_senior4(skills_count, exp_count, has_advanced, cert_count, contact_fields) ==
    (IF skills_count >= 10 THEN BONUSES.many_skills ELSE 0)
    + (IF exp_count >= 4 THEN BONUSES.senior_exp ELSE 0)
    + (IF has_advanced THEN BONUSES.advanced_degree ELSE 0)
    + (IF cert_count >= 1 THEN BONUSES.certifications ELSE 0)
    + (IF contact_fields >= 4 THEN BONUSES.complete_contact ELSE 0)

\* bonus_total, accumulated check by check
BonusTotal(skills_count, exp_count, has_advanced, cert_count, contact_fields) ==
    (IF skills_count >= 10 THEN BONUSES.many_skills ELSE 0)
    + (IF exp_count >= 5 THEN BONUSES.senior_exp ELSE 0)
    + (IF has_advanced THEN BONUSES.advanced_degree ELSE 0)
    + (IF cert_count >= 1 THEN BONUSES.certifications ELSE 0)
    + (IF contact_fields >= 4 THEN BONUSES.complete_contact ELSE 0)

\* the final score without the cap
TotalScore_uncapped(base_score, bonus_total) == base_score + bonus_total

TotalScore(base_score, bonus_total) == Min(base_score + bonus_total, 100)

\* the top grade given only above 90
Grade_strict(total_score) ==
    IF total_score > 90 THEN "A+"
    ELSE IF total_score >= 80 THEN "A"
    ELSE IF total_score >= 70 THEN "B"
    ELSE IF total_score >= 60 THEN "C"
    ELSE IF total_score >= 50 THEN "D"
    ELSE "F"

Grade(total_score) ==
    IF total_score >= 90 THEN "A+"
    ELSE IF total_score >= 80 THEN "A"
    ELSE IF total_score >= 70 THEN "B"
    ELSE IF total_score >= 60 THEN "C"
    ELSE IF total_score >= 50 THEN "D"
    ELSE "F"

\* the texts that _get_suggestions appends
Suggestions ==
    [contact |-> "Add more contact information (LinkedIn, phone)",
     summary |-> "Write a more detailed professional summary (150+ words)",
     skills |-> "List more technical skills relevant to your field",
     experience |-> "Add more details to work experience (achievements, metrics)",
     education |-> "Include education details with degree and institution",
     certifications |-> "Consider adding relevant certifications"]

\* the education advice given only when some education entry exists
GetSuggestions_eduOnlyIfListed(scores, r) ==
    (IF scores.contact < 10 THEN <<Suggestions.contact>> ELSE <<>>)
    \o (IF scores.summary < 7 THEN <<Suggestions.summary>> ELSE <<>>)
    \o (IF scores.skills < 15 THEN <<Suggestions.skills>> ELSE <<>>)
    \o (IF scores.experience < 22 THEN <<Suggestions.experience>> ELSE <<>>)
    \o (IF scores.education < 10 /\ Len(r.education) > 0
        THEN <<Suggestions.education>> ELSE <<>>)
    \o (IF Len(r.certifications) = 0 THEN <<Suggestions.certifications>> ELSE <<>>)

\* the skills advice given only below 10 points
GetSuggestions_skillsBelow10(scores, r) ==
    (IF scores.contact < 10 THEN <<Suggestions.contact>> ELSE <<>>)
    \o (IF scores.summary < 7 THEN <<Suggestions.summary>> ELSE <<>>)
    \o (IF scores.skills < 10 THEN <<Suggestions.skills>> ELSE <<>>)
    \o (IF scores.experience < 22 THEN <<Suggestions.experience>> ELSE <<>>)
    \o (IF scores.education < 10 THEN <<Suggestions.education>> ELSE <<>>)
    \o (IF Len(r.certifications) = 0 THEN <<Suggestions.certifications>> ELSE <<>>)

GetSuggestions(scores, r) ==
    (IF scores.contact < 10 THEN <<Suggestions.contact>> ELSE <<>>)
    \o (IF scores.summary < 7 THEN <<Suggestions.summary>> ELSE <<>>)
    \o (IF scores.skills < 15 THEN <<Suggestions.skills>> ELSE <<>>)
    \o (IF scores.experience < 22 THEN <<Suggestions.experience>> ELSE <<>>)
    \o (IF scores.education < 10 THEN <<Suggestions.education>> ELSE <<>>)
    \o (IF Len(r.certifications) = 0 THEN <<Suggestions.certifications>> ELSE <<>>)

\* ResumeScorer.score(resume)
Score(r) ==
    LET contact_fields == ContactFields(r.contact)
        skills_count == Len(r.skills)
        exp_count == Len(r.experience)
        exp_with_details == CountDetailed(r.experience)
        edu_count == Len(r.education)
        edu_with_degree == CountWithDegree(r.education)
        cert_count == Len(r.certifications)
        lang_count == Len(r.languages)
        scores ==
            [contact |-> ContactScore(r.contact),
             summary |-> SummaryScore(r.summary),
             skills |-> SkillsScore(skills_count),
             experience |-> ExperienceScore(exp_count, exp_with_details),
             education |-> EducationScore(edu_count, edu_with_degree),
             certifications |-> CertScore(cert_count),
             languages |-> LangScore(lang_count)]
        details ==
            [contact |-> ToString(contact_fields) \o "/4 fields",
             summary |-> ToString(Len(OrEmpty(r.summary))) \o " chars",
             skills |-> ToString(skills_count) \o " skills found",
             experience |-> ToString(exp_count) \o " positions, "
                            \o ToString(exp_with_details) \o " with details",
             education |-> ToString(edu_count) \o " entries",
             certifications |-> ToString(cert_count) \o " certifications",
             languages |-> ToString(lang_count) \o " languages"]
        breakdown ==
            [s \in DOMAIN scores |->
                [score |-> scores[s], max |-> WEIGHTS[s], details |-> details[s]]]
        base_score ==
            SumSeq([i \in DOMAIN SectionOrder |-> scores[SectionOrder[i]]])
        has_advanced == HasAdvanced(r.education)
        bonus_keys ==
            BonusKeys(skills_count, exp_count, has_advanced, cert_count,
                      contact_fields)
        bonus_total ==
            BonusTotal(skills_count, exp_count, has_advanced, cert_count,
                       contact_fields)
        total_score == TotalScore(base_score, bonus_total)
    IN  [total_score |-> total_score,
         grade |-> Grade(total_score),
         base_score |-> base_score,
         bonus_score |-> bonus_total,
         breakdown |-> breakdown,
         bonuses |-> [k \in bonus_keys |-> BONUSES[k]],
         suggestions |-> GetSuggestions(scores, r)]

-----------------------------------------------------------------------------
(* app/services/resume_parser.py: sections                                 *)

SECTION_HEADERS ==
    <<[name |-> "experience",
       headers |-> <<"experience", "work experience", "employment", "work history",
                     "professional experience", "career history",
                     "employment history">>],
      [name |-> "education",
       headers |-> <<"education", "academic", "qualifications",
                     "academic background", "educational background",
                     "academic qualifications">>],
      [name |-> "skills",
       headers |-> <<"skills", "technical skills", "core competencies",
                     "competencies", "expertise", "technologies", "proficiencies",
                     "abilities">>],
      [name |-> "summary",
       headers |-> <<"summary", "profile", "objective", "professional summary",
                     "career objective", "about me", "overview">>],
      [name |-> "certifications",
       headers |-> <<"certifications", "certificates", "licenses", "credentials",
                     "professional certifications">>]>>

\* the header pattern of each section: (?i)(?:^|\n)\s*(h1|h2|...)\s*:?\s*\n
SectionPatterns ==
    [k \in DOMAIN SECTION_HEADERS |->
        LET hdrs == SECTION_HEADERS[k].headers
        IN  Cat(<<Alt(<<Bol, Lit("\n")>>), Star(Set(Space)),
                  Alt([h \in DOMAIN hdrs |-> Lit(hdrs[h])]),
                  Star(Set(Space)), Opt(Lit(":")), Star(Set(Space)), Lit("\n")>>)]

RECURSIVE HeadersFrom(_, _)
\* all_headers before sorting: the header matches of the sections k, k+1, ...
HeadersFrom(txt, k) ==
    IF k > Len(SECTION_HEADERS) THEN <<>>
    ELSE LET ms == FindAll(SectionPatterns[k], TRUE, txt)
         IN  [j \in DOMAIN ms |->
                 [start |-> ms[j][1], end |-> ms[j][2],
                  section |-> SECTION_HEADERS[k].name]]
             \o HeadersFrom(txt, k + 1)

\* x inserted after the last element whose start is not greater
RECURSIVE InsertByStart(_, _)
InsertByStart(q, x) ==
    IF q = <<>> THEN <<x>>
    ELSE IF q[Len(q)].start <= x.start THEN Append(q, x)
    ELSE Append(InsertByStart(SubSeq(q, 1, Len(q) - 1), x), q[Len(q)])

RECURSIVE SortByStart(_)
\* all_headers.sort(key=lambda x: x[0]), a stable sort
SortByStart(q) ==
    IF q = <<>> THEN <<>>
    ELSE InsertByStart(SortByStart(SubSeq(q, 1, Len(q) - 1)), q[Len(q)])

\* all_headers
AllHeaders(txt) == SortByStart(HeadersFrom(txt, 1))

\* SectionOf that ends the section at the next header of another section only
SectionOf_toNextOtherSection(txt, all_headers, section_name) ==
    LET mine == {i \in DOMAIN all_headers : all_headers[i].section = section_name}
    IN  IF mine = {} THEN None
        ELSE LET i == CHOOSE k \in mine : \A j \in mine : k <= j
                 others == {j \in DOMAIN all_headers :
                              j > i /\ all_headers[j].section # section_name}
                 section_start == all_headers[i].end
                 section_end ==
                     IF others # {}
                     THEN all_headers[CHOOSE k \in others : \A j \in others : k <= j].start
                     ELSE Len(txt) + 1
             IN  Some(Strip(Slice(txt, section_start, section_end)))

\* the section text cut out given all_headers
SectionOf(txt, all_headers, section_name) ==
    LET mine == {i \in DOMAIN all_headers : all_headers[i].section = section_name}
    IN  IF mine = {} THEN None
        ELSE LET i == CHOOSE k \in mine : \A j \in mine : k <= j
                 section_start == all_headers[i].end
                 section_end ==
                     IF i + 1 <= Len(all_headers) THEN all_headers[i + 1].start
                     ELSE Len(txt) + 1
             IN  Some(Strip(Slice(txt, section_start, section_end)))

\* ResumeParser._get_section_text(text, section_name)
GetSectionText(txt, section_name) == SectionOf(txt, AllHeaders(txt), section_name)

-----------------------------------------------------------------------------
(* app/services/resume_parser.py: skills                                   *)

\* the characters of the model in the order of their code points; the glyphs
\* outside ASCII come last
CodeOrder ==
    "\t\n\f\r !\"#$%&'()*+,-./" \o Digits \o ":;<>?@" \o UpperChars \o "[\\]_"
    \o LowerChars \o "|" \o EnDash \o EmDash \o Bullet \o WhiteCircle \o BlackCircle

\* ord(c)
Ord(c) == CHOOSE k \in 1..Len(CodeOrder) : CharAt(CodeOrder, k) = c

RECURSIVE StrLess(_, _)
\* a < b for strings
StrLess(a, b) ==
    IF b = "" THEN FALSE
    ELSE IF a = "" THEN TRUE
    ELSE IF Head(a) = Head(b) THEN StrLess(Tail(a), Tail(b))
    ELSE Ord(Head(a)) < Ord(Head(b))

RECURSIVE Sorted_reversed(_)
\* sorted(list(S), reverse=True)
Sorted_reversed(S) ==
    IF S = {} THEN <<>>
    ELSE LET m == CHOOSE x \in S : \A y \in S : y = x \/ StrLess(y, x)
         IN  <<m>> \o Sorted_reversed(S \ {m})

RECURSIVE Sorted(_)
\* sorted(list(S)) for a set S of strings
Sorted(S) ==
    IF S = {} THEN <<>>
    ELSE LET m == CHOOSE x \in S : \A y \in S : y = x \/ StrLess(x, y)
         IN  <<m>> \o Sorted(S \ {m})

\* the elements of a tuple
Range(q) == {q[i] : i \in DOMAIN q}

SkillDelimiters == <<",", ";", Bullet, BlackCircle, WhiteCircle, "|", "\n">>

\* ResumeParser._extract_skills(text, doc), given
\* skills_section = self._get_section_text(text, "skills")
ExtractSkills(skills_section, d) ==
    LET matched == Range(d.skills)
        \* the fragments added for one delimiter
        SkillParts(delimiter) ==
            IF Contains(skills_section[1], delimiter)
            THEN {c \in {Strip(part) :
                            part \in Range(SplitOn(skills_section[1], delimiter))} :
                    c # "" /\ Len(c) < 50}
            ELSE {}
        split == IF Truthy(skills_section)
                 THEN UNION {SkillParts(SkillDelimiters[k]) :
                                k \in DOMAIN SkillDelimiters}
                 ELSE {}
    IN  Sorted(matched \cup split)

-----------------------------------------------------------------------------
(* app/services/resume_parser.py: experience                               *)

\* \d{4}
Year4 == Rep(Set(Digits), 4, 4)

\* \d{1,2}/\d{4}|\w+\s+\d{4}|\d{4}
DatePoint ==
    <<Cat(<<Rep(Set(Digits), 1, 2), Lit("/"), Year4>>),
      Cat(<<Plus(Set(Word)), Plus(Set(Space)), Year4>>),
      Year4>>

\* (?:\d{1,2}/\d{4}|\w+\s+\d{4}|\d{4})\s*[-–—to]+\s*
\* (?:\d{1,2}/\d{4}|\w+\s+\d{4}|\d{4}|present|current), with re.IGNORECASE
date_pattern ==
    Cat(<<Alt(DatePoint), Star(Set(Space)),
          Plus(Set("-" \o EnDash \o EmDash \o "to")), Star(Set(Space)),
          Alt(DatePoint \o <<Lit("present"), Lit("current")>>)>>)

\* [-–—]|to
DateSeparator == Alt(<<Set("-" \o EnDash \o EmDash), Lit("to")>>)

\* \s+at\s+
AtSeparator == Cat(<<Plus(Set(Space)), Lit("at"), Plus(Set(Space))>>)

job_indicators ==
    <<"engineer", "developer", "manager", "director", "analyst", "consultant",
      "specialist", "coordinator", "administrator", "architect", "designer",
      "lead", "senior", "junior", "intern", "associate", "executive", "officer",
      "president", "vp">>

\* ResumeParser._looks_like_job_title(line)
LooksLikeJobTitle(line) ==
    \E k \in DOMAIN job_indicators : Contains(Lower(line), job_indicators[k])

\* the characters of line.lstrip("•-*●○ ")
BulletChars == Bullet \o "-*" \o BlackCircle \o WhiteCircle \o " "

\* title and company set from the first and second of the parts
WithTitleCompany(exp, parts) ==
    IF Len(parts) > 1
    THEN [exp EXCEPT !.title = Some(Strip(parts[1])), !.company = Some(Strip(parts[2]))]
    ELSE [exp EXCEPT !.title = Some(Strip(parts[1]))]

\* the entry a trigger line opens
NewExperience(line, date_match) ==
    LET dated ==
            IF date_match # None
            THEN LET date_parts == Split(DateSeparator, TRUE, Group(line, date_match))
                 IN  IF Len(date_parts) >= 2
                     THEN [WorkExperience EXCEPT
                              !.start_date = Some(Strip(date_parts[1])),
                              !.end_date = Some(Strip(date_parts[2]))]
                     ELSE [WorkExperience EXCEPT
                              !.start_date = Some(Strip(date_parts[1]))]
            ELSE WorkExperience
        \* re.sub(date_pattern, "", line, flags=re.IGNORECASE).strip()
        line_without_date == Strip(Join(Split(date_pattern, TRUE, line), ""))
    IN  IF Contains(Lower(line_without_date), " at ")
        THEN WithTitleCompany(dated, Split(AtSeparator, TRUE, line_without_date))
        ELSE IF Contains(line_without_date, "|")
        THEN WithTitleCompany(dated, SplitOn(line_without_date, "|"))
        ELSE IF Contains(line_without_date, ",")
        THEN WithTitleCompany(dated, SplitOn(line_without_date, ","))
        ELSE [dated EXCEPT !.title = Some(line_without_date)]

\* current_exp and (current_exp.company or current_exp.title)
\* Keeps without the test of company and title
Keeps_anyOpenEntry(current_exp) == current_exp # None

Keeps(current_exp) ==
    current_exp # None /\ (Truthy(current_exp[1].company) \/ Truthy(current_exp[1].title))

\* experiences after the entry, if it is kept, is appended
Flushed(experiences, current_exp) ==
    IF Keeps(current_exp) THEN Append(experiences, current_exp[1]) ELSE experiences

\* WithDetail without the test that something is left of the bullet line
WithDetail_keepsEmptyHighlight(exp, line) ==
    IF line # "" /\ Head(line) \in {Bullet, "-", "*", BlackCircle, WhiteCircle}
    THEN [exp EXCEPT !.highlights = Append(@, Strip(LStrip(line, BulletChars)))]
    ELSE IF Truthy(exp.description)
    THEN [exp EXCEPT !.description = Some(@[1] \o " " \o line)]
    ELSE [exp EXCEPT !.description = Some(line)]

\* a line added to the open entry as a highlight or to its description
WithDetail(exp, line) ==
    \* line.startswith(("•", "-", "*", "●", "○"))
    IF line # "" /\ Head(line) \in {Bullet, "-", "*", BlackCircle, WhiteCircle}
    THEN LET highlight == Strip(LStrip(line, BulletChars))
         IN  IF highlight # ""
             THEN [exp EXCEPT !.highlights = Append(@, highlight)]
             ELSE exp
    ELSE IF Truthy(exp.description)
    THEN [exp EXCEPT !.description = Some(@[1] \o " " \o line)]
    ELSE [exp EXCEPT !.description = Some(line)]

\* ExperienceStep in which only a job title opens an entry, not a date range
ExperienceStep_titleOpensOnly(st, raw_line) ==
    LET line == Strip(raw_line)
        date_match == Search(date_pattern, TRUE, line)
    IN  IF line = "" THEN st
        ELSE IF LooksLikeJobTitle(line)
        THEN [current_exp |-> Some(NewExperience(line, date_match)),
              experiences |-> Flushed(st.experiences, st.current_exp)]
        ELSE IF st.current_exp # None
        THEN [st EXCEPT !.current_exp = Some(WithDetail(st.current_exp[1], line))]
        ELSE st

\* one pass of the loop over the lines of the experience section; st is
\* [current_exp, experiences]
ExperienceStep(st, raw_line) ==
    LET line == Strip(raw_line)
        date_match == Search(date_pattern, TRUE, line)
    IN  IF line = "" THEN st
        ELSE IF date_match # None \/ LooksLikeJobTitle(line)
        THEN [current_exp |-> Some(NewExperience(line, date_match)),
              experiences |-> Flushed(st.experiences, st.current_exp)]
        ELSE IF st.current_exp # None
        THEN [st EXCEPT !.current_exp = Some(WithDetail(st.current_exp[1], line))]
        ELSE st

RECURSIVE ExperienceScan(_, _)
\* the state after the loop over the lines
ExperienceScan(st, lines) ==
    IF lines = <<>> THEN st
    ELSE ExperienceScan(ExperienceStep(st, Head(lines)), Tail(lines))

\* q[:n + 1], one element too many
Prefix_oneMore(q, n) == SubSeq(q, 1, Min(n + 1, Len(q)))

\* q[:n]
Prefix(q, n) == SubSeq(q, 1, Min(n, Len(q)))

\* ResumeParser._extract_experience(text), given
\* exp_section = self._get_section_text(text, "experience")
ExtractExperience(exp_section) ==
    IF ~Truthy(exp_section) THEN <<>>
    ELSE LET st == ExperienceScan([current_exp |-> None, experiences |-> <<>>],
                                  SplitOn(exp_section[1], "\n"))
         IN  Prefix(Flushed(st.experiences, st.current_exp), 10)

-----------------------------------------------------------------------------
(* app/services/resume_parser.py: education                                *)

\* x\.?y\.?  for two letters x and y
Dotted(x, y) == Cat(<<Lit(x), Opt(Lit(".")), Lit(y), Opt(Lit("."))>>)

\* x\.?tech
DotTech(x) == Cat(<<Lit(x), Opt(Lit(".")), Lit("tech")>>)

\* word'?s?
Possessive(word) == Cat(<<Lit(word), Opt(Lit("'")), Opt(Lit("s"))>>)

\* each with (?i)
DEGREE_PATTERNS ==
    <<Alt(<<Possessive("bachelor"), Dotted("b", "s"), Dotted("b", "a"),
            Dotted("b", "e"), DotTech("b")>>),
      Alt(<<Possessive("master"), Dotted("m", "s"), Dotted("m", "a"),
            Dotted("m", "e"), DotTech("m"), Lit("mba")>>),
      Alt(<<Cat(<<Lit("ph"), Opt(Lit(".")), Lit("d"), Opt(Lit("."))>>),
            Lit("doctorate"), Lit("doctoral")>>),
      Alt(<<Possessive("associate"), Dotted("a", "s"), Dotted("a", "a")>>),
      Alt(<<Lit("diploma"), Lit("certificate")>>)>>

\* any(re.search(pattern, line) for pattern in self.DEGREE_PATTERNS)
HasDegree(line) ==
    \E k \in DOMAIN DEGREE_PATTERNS : Search(DEGREE_PATTERNS[k], TRUE, line) # None

\* (?:in|of)\s+
FieldPrefix == Cat(<<Alt(<<Lit("in"), Lit("of")>>), Plus(Set(Space))>>)

\* ([A-Za-z\s]+?)
FieldGroup == PlusLazy(Set(LowerChars \o UpperChars \o Space))

\* (?:\s*[,|\n]|$)
FieldSuffix == Alt(<<Cat(<<Star(Set(Space)), Set(",|\n")>>), Eol>>)

RECURSIVE FieldSearchFrom(_, _)
\* in_match.group(1).strip() for the leftmost match from position i on, or
\* None; sp is the <<start, end>> of group 1 in the first way to match the
\* prefix, the group and the suffix from position i, or None
FieldSearchFrom(line, i) ==
    LET starts == IF MayStart(FieldPrefix, TRUE, line, i)
                  THEN Ends(FieldPrefix, TRUE, line, i) ELSE <<>>
        spans == [k \in DOMAIN starts |->
                    SelectSeq([j \in DOMAIN Ends(FieldGroup, TRUE, line, starts[k]) |->
                                  <<starts[k], Ends(FieldGroup, TRUE, line, starts[k])[j]>>],
                              LAMBDA sp : Ends(FieldSuffix, TRUE, line, sp[2]) # <<>>)]
        found == SelectSeq(spans, LAMBDA q : q # <<>>)
        sp == IF found = <<>> THEN None ELSE Head(Head(found))
    IN  IF i > Len(line) + 1 THEN None
        ELSE IF sp # None THEN Some(Strip(Slice(line, sp[1], sp[2])))
        ELSE FieldSearchFrom(line, i + 1)

\* (19|20)\d{2}
YearPattern == Cat(<<Alt(<<Lit("19"), Lit("20")>>), Rep(Set(Digits), 2, 2)>>)

\* NewEducation with the whole line as the degree instead of match.group()
NewEducation_wholeLine(line) ==
    LET year_match == Search(YearPattern, FALSE, line)
    IN  [Education EXCEPT
            !.degree = Some(line),
            !.field_of_study = FieldSearchFrom(line, 1),
            !.end_date = IF year_match # None THEN Some(Group(line, year_match))
                         ELSE None]

\* the entry a degree line opens
NewEducation(line) ==
    LET year_match == Search(YearPattern, FALSE, line)
        \* the first of DEGREE_PATTERNS that matches
        k == CHOOSE j \in DOMAIN DEGREE_PATTERNS :
                 /\ Search(DEGREE_PATTERNS[j], TRUE, line) # None
                 /\ \A i \in 1..(j - 1) : Search(DEGREE_PATTERNS[i], TRUE, line) = None
    IN  [Education EXCEPT
            !.degree = Some(Group(line, Search(DEGREE_PATTERNS[k], TRUE, line))),
            !.field_of_study = FieldSearchFrom(line, 1),
            !.end_date = IF year_match # None THEN Some(Group(line, year_match))
                         ELSE None]

\* EducationStep that keeps the open entry only if it has an institution, the
\* way the experience scan filters
EducationStep_keepsIfInstitution(st, raw_line) ==
    LET line == Strip(raw_line)
    IN  IF line = "" THEN st
        ELSE IF HasDegree(line)
        THEN [current_edu |-> Some(NewEducation(line)),
              education_list |->
                  IF st.current_edu # None /\ Truthy(st.current_edu[1].institution)
                  THEN Append(st.education_list, st.current_edu[1])
                  ELSE st.education_list]
        ELSE IF st.current_edu # None /\ ~Truthy(st.current_edu[1].institution)
        THEN [st EXCEPT !.current_edu = Some([@[1] EXCEPT !.institution = Some(line)])]
        ELSE st

\* EducationStep in which a line without a degree opens an entry, with the
\* line as its institution, when no entry is open
EducationStep_opensOnAnyLine(st, raw_line) ==
    LET line == Strip(raw_line)
    IN  IF line = "" THEN st
        ELSE IF HasDegree(line)
        THEN [current_edu |-> Some(NewEducation(line)),
              education_list |->
                  IF st.current_edu # None
                  THEN Append(st.education_list, st.current_edu[1])
                  ELSE st.education_list]
        ELSE IF st.current_edu = None
        THEN [st EXCEPT !.current_edu =
                            Some([Education EXCEPT !.institution = Some(line)])]
        ELSE IF ~Truthy(st.current_edu[1].institution)
        THEN [st EXCEPT !.current_edu = Some([@[1] EXCEPT !.institution = Some(line)])]
        ELSE st

\* one pass of the loop over the lines; st is [current_edu, education_list]
EducationStep(st, raw_line) ==
    LET line == Strip(raw_line)
    IN  IF line = "" THEN st
        ELSE IF HasDegree(line)
        THEN [current_edu |-> Some(NewEducation(line)),
              education_list |->
                  IF st.current_edu # None
                  THEN Append(st.education_list, st.current_edu[1])
                  ELSE st.education_list]
        ELSE IF st.current_edu # None /\ ~Truthy(st.current_edu[1].institution)
        THEN [st EXCEPT !.current_edu = Some([@[1] EXCEPT !.institution = Some(line)])]
        ELSE st

RECURSIVE EducationScan(_, _)
\* the state after the loop over the lines
EducationScan(st, lines) ==
    IF lines = <<>> THEN st
    ELSE EducationScan(EducationStep(st, Head(lines)), Tail(lines))

\* ExtractEducation that scans the whole text only when no header was found
ExtractEducation_fallbackIfAbsent(txt, found) ==
    LET edu_section == IF found # None THEN found[1] ELSE txt
        st == EducationScan([current_edu |-> None, education_list |-> <<>>],
                            SplitOn(edu_section, "\n"))
    IN  Prefix(IF st.current_edu # None
               THEN Append(st.education_list, st.current_edu[1])
               ELSE st.education_list, 5)

\* ResumeParser._extract_education(text), given
\* found = self._get_section_text(text, "education")
ExtractEducation(txt, found) ==
    LET edu_section == IF Truthy(found) THEN found[1] ELSE txt
        st == EducationScan([current_edu |-> None, education_list |-> <<>>],
                            SplitOn(edu_section, "\n"))
    IN  Prefix(IF st.current_edu # None
               THEN Append(st.education_list, st.current_edu[1])
               ELSE st.education_list, 5)

-----------------------------------------------------------------------------
(* app/services/resume_parser.py: summary, certifications, languages       *)

\* \s+
Whitespace == Plus(Set(Space))

RECURSIVE Words(_)
\* str.split(): the runs of characters other than whitespace
Words(s) ==
    LET t == LStrip(s, Space)
        m == Search(Whitespace, FALSE, t)
    IN  IF t = "" THEN <<>>
        ELSE IF m = None THEN <<t>>
        ELSE <<Slice(t, 1, m[1])>> \o Words(Slice(t, m[2], Len(t) + 1))

\* ResumeParser._extract_summary(text), given
\* summary_section = self._get_section_text(text, "summary")
ExtractSummary(summary_section) ==
    IF Truthy(summary_section)
    THEN LET summary == Join(Words(summary_section[1]), " ")
         IN  Some(IF Len(summary) > 1000 THEN SubSeq(summary, 1, 1000) ELSE summary)
    ELSE None

\* ResumeParser._extract_certifications(text), given
\* cert_section = self._get_section_text(text, "certifications")
ExtractCertifications(cert_section) ==
    IF Truthy(cert_section)
    THEN LET lines == SplitOn(cert_section[1], "\n")
             cleaned == [k \in DOMAIN lines |-> LStrip(Strip(lines[k]), BulletChars)]
         IN  Prefix(SelectSeq(cleaned, LAMBDA line : line # "" /\ Len(line) < 200), 20)
    ELSE <<>>

common_languages ==
    <<"English", "Spanish", "French", "German", "Chinese", "Mandarin", "Japanese",
      "Korean", "Portuguese", "Italian", "Russian", "Arabic", "Hindi", "Dutch",
      "Swedish", "Norwegian", "Danish", "Finnish", "Polish", "Turkish",
      "Vietnamese", "Thai", "Indonesian">>

\* the texts of the entities with one of the labels, in order
EntityTexts(d, labels) ==
    LET es == SelectSeq(d.ents, LAMBDA ent : ent.label \in labels)
    IN  [k \in DOMAIN es |-> es[k].text]

\* ResumeParser._extract_languages(text, doc)
ExtractLanguages(txt, d) ==
    LET text_lower == Lower(txt)
    IN  Sorted({common_languages[k] : k \in
                    {j \in DOMAIN common_languages :
                        Contains(text_lower, Lower(common_languages[j]))}}
               \cup Range(EntityTexts(d, {"LANGUAGE"})))

-----------------------------------------------------------------------------
(* app/services/resume_parser.py: contact and parse                        *)

Letters == LowerChars \o UpperChars

\* [a-zA-Z0-9._%+-]+@[a-zA-Z0-9.-]+\.[a-zA-Z]{2,}
email_pattern ==
    Cat(<<Plus(Set(Letters \o Digits \o "._%+-")), Lit("@"),
          Plus(Set(Letters \o Digits \o ".-")), Lit("."), Repeated(Set(Letters), 2, None, TRUE)>>)

\* [-.\s]?
PhoneSep == Opt(Set("-." \o Space))

\* \d{lo,hi}
DigitRun(lo, hi) == Rep(Set(Digits), lo, hi)

phone_patterns ==
    <<\* (?:\+?1[-.\s]?)?\(?\d{3}\)?[-.\s]?\d{3}[-.\s]?\d{4}
      Cat(<<Opt(Cat(<<Opt(Lit("+")), Lit("1"), PhoneSep>>)), Opt(Lit("(")),
            DigitRun(3, 3), Opt(Lit(")")), PhoneSep, DigitRun(3, 3), PhoneSep,
            DigitRun(4, 4)>>),
      \* \+\d{1,3}[-.\s]?\d{1,4}[-.\s]?\d{1,4}[-.\s]?\d{1,9}
      Cat(<<Lit("+"), DigitRun(1, 3), PhoneSep, DigitRun(1, 4), PhoneSep,
            DigitRun(1, 4), PhoneSep, DigitRun(1, 9)>>)>>

\* (?:https?://)?(?:www\.)?linkedin\.com/in/[\w-]+, with re.IGNORECASE
linkedin_pattern ==
    Cat(<<Opt(Cat(<<Lit("http"), Opt(Lit("s")), Lit("://")>>)), Opt(Lit("www.")),
          Lit("linkedin.com/in/"), Plus(Set(Word \o "-"))>>)

\* match.group() of the first match of the first pattern that matches, or None
FirstMatch(patterns, ic, txt) ==
    LET ms == SelectSeq([k \in DOMAIN patterns |-> Search(patterns[k], ic, txt)],
                        LAMBDA m : m # None)
    IN  IF ms = <<>> THEN None ELSE Some(Group(txt, Head(ms)))

\* any(char.isdigit() for char in line)
HasDigit(line) == \E i \in 1..Len(line) : CharAt(line, i) \in Chars(Digits)

\* NameLike without the test that the line is not empty
NameLike_blankAccepted(line) ==
    /\ Search(email_pattern, FALSE, line) = None
    /\ Len(line) < 50
    /\ ~HasDigit(line)

\* the line is taken as the name
NameLike(line) ==
    /\ line # ""
    /\ Search(email_pattern, FALSE, line) = None
    /\ Len(line) < 50
    /\ ~HasDigit(line)

\* FallbackName over the first 5 lines that are not blank
FallbackName_skipsBlankLines(txt) ==
    LET lines == SplitOn(Strip(txt), "\n")
        stripped == [k \in DOMAIN lines |-> Strip(lines[k])]
        names == SelectSeq(Prefix(SelectSeq(stripped, LAMBDA line : line # ""), 5),
                           NameLike)
    IN  IF names = <<>> THEN None ELSE Some(Head(names))

\* the name found among lines[:5] of text.strip().split("\n")
FallbackName(txt) ==
    LET lines == Prefix(SplitOn(Strip(txt), "\n"), 5)
        stripped == [k \in DOMAIN lines |-> Strip(lines[k])]
        names == SelectSeq(stripped, NameLike)
    IN  IF names = <<>> THEN None ELSE Some(Head(names))

\* ResumeParser._extract_contact_info(text, doc)
ExtractContactInfo(txt, d) ==
    LET persons == EntityTexts(d, {"PERSON"})
        locations == EntityTexts(d, {"GPE", "LOC"})
        ner_name == IF persons = <<>> THEN None ELSE Some(Head(persons))
    IN  [name |-> IF Truthy(ner_name) THEN ner_name ELSE FallbackName(txt),
         email |-> FirstMatch(<<email_pattern>>, FALSE, txt),
         phone |-> FirstMatch(phone_patterns, FALSE, txt),
         linkedin |-> FirstMatch(<<linkedin_pattern>>, TRUE, txt),
         location |-> IF locations # <<>>
                      THEN Some(Join(Prefix(locations, 2), ", "))
                      ELSE None]

\* ResumeParser.parse(text, include_raw_text); the _get_section_text call of
\* each extractor builds the same all_headers, which is built once here, and
\* the extractor is given the section text that the call returns
Parse(txt, d, include_raw_text) ==
    LET all_headers == AllHeaders(txt)
    IN  [contact |-> ExtractContactInfo(txt, d),
         summary |-> ExtractSummary(SectionOf(txt, all_headers, "summary")),
         skills |-> ExtractSkills(SectionOf(txt, all_headers, "skills"), d),
         experience |-> ExtractExperience(SectionOf(txt, all_headers, "experience")),
         education |-> ExtractEducation(txt, SectionOf(txt, all_headers, "education")),
         certifications |->
             ExtractCertifications(SectionOf(txt, all_headers, "certifications")),
         languages |-> ExtractLanguages(txt, d),
         raw_text |-> IF include_raw_text THEN Some(txt) ELSE None]

\* the annotation of a text in which nothing is recognised
EmptyDoc == [ents |-> <<>>, skills |-> <<>>]

-----------------------------------------------------------------------------
(* Records handed to the scorer directly                                   *)

MaxSkills == 12

MaxExp == 5

MaxCerts == 3

MaxLangs == 3

MaxMixedExp == 4

\* q repeated n times, for a tuple q
RECURSIVE Times(_, _)
Times(q, n) == IF n <= 0 THEN <<>> ELSE q \o Times(q, n - 1)

DetailedExp ==
    [WorkExperience EXCEPT !.title = Some("Software Engineer"),
                           !.company = Some("Acme Corp"),
                           !.highlights = <<"Built things">>]

PlainExp == [WorkExperience EXCEPT !.title = Some("Intern")]

Contacts ==
    {[ContactInfo EXCEPT !.name = n, !.email = e, !.phone = p, !.linkedin = l] :
        n \in {None, Some("John Smith")}, e \in {None, Some("john@x.com")},
        p \in {None, Some("(555) 123-4567")},
        l \in {None, Some("linkedin.com/in/john")}}

Bachelor == [Education EXCEPT !.degree = Some("Bachelor")]

\* every contact, skills list and experience list (d detailed entries followed
\* by u entries with a title only), with the other sections all empty or as in
\* a complete resume
RecordsByCounts ==
    LET SkillLists == {[i \in 1..n |-> "Skill" \o ToString(i)] : n \in 0..MaxSkills}
        ExperienceLists ==
            {Times(<<DetailedExp>>, x[1]) \o Times(<<PlainExp>>, x[2]) :
                x \in {y \in (0..MaxExp) \X (0..MaxExp) : y[1] + y[2] <= MaxExp}}
    IN  {[ParsedResume EXCEPT
            !.contact = c, !.skills = sk, !.experience = ex,
            !.summary = o[1], !.education = o[2]] :
            c \in Contacts, sk \in SkillLists, ex \in ExperienceLists,
            o \in {<<None, <<>>>>, <<Some(Repeat("x", 250)), <<Bachelor>>>>}}

NameAndEmail ==
    [ContactInfo EXCEPT !.name = Some("John Smith"), !.email = Some("john@x.com")]

\* every summary, education list, certifications list and languages list, with
\* the contact empty, partial or full and skills and experience empty, full or
\* senior
RecordsBySections ==
    LET FullContact ==
            [NameAndEmail EXCEPT !.phone = Some("(555) 123-4567"),
                                 !.linkedin = Some("linkedin.com/in/john")]
        Summaries ==
            {None, Some("")} \cup {Some(Repeat("x", n)) : n \in {40, 60, 150, 250}}
        EducationLists ==
            {<<>>} \cup {<<[Education EXCEPT !.degree = d]>> :
                            d \in {None, Some("Bachelor"), Some("MBA"), Some("Ph.D.")}}
        CertLists == {[i \in 1..n |-> "Cert" \o ToString(i)] : n \in 0..MaxCerts}
        LanguageLists == {[i \in 1..n |-> "Lang" \o ToString(i)] : n \in 0..MaxLangs}
    IN  {[ParsedResume EXCEPT
            !.contact = c, !.summary = s, !.education = e, !.certifications = ce,
            !.languages = la,
            !.skills = [i \in 1..o[1] |-> "Skill" \o ToString(i)],
            !.experience = Times(<<DetailedExp>>, o[2]) \o Times(<<PlainExp>>, o[3])] :
            c \in {ContactInfo, NameAndEmail, FullContact}, s \in Summaries,
            e \in EducationLists, ce \in CertLists, la \in LanguageLists,
            o \in {<<0, 0, 0>>, <<12, 3, 1>>, <<12, 5, 0>>}}

\* RecordsByExperience: every experience list of at most MaxMixedExp entries,
\* each detailed by a highlight or by a description, or lacking one of title,
\* company and detail, or holding an empty title or description
Records ==
    LET Kinds ==
            {DetailedExp,
             [DetailedExp EXCEPT !.highlights = <<>>, !.description = Some("Remote")],
             [DetailedExp EXCEPT !.highlights = <<>>],
             [DetailedExp EXCEPT !.highlights = <<>>, !.description = Some("")],
             [DetailedExp EXCEPT !.company = None],
             [DetailedExp EXCEPT !.title = Some("")]}
        RecordsByExperience ==
            {[ParsedResume EXCEPT !.experience = ex] :
                ex \in UNION {[1..k -> Kinds] : k \in 0..MaxMixedExp}}
    IN  RecordsByCounts \cup RecordsBySections \cup RecordsByExperience

-----------------------------------------------------------------------------
(* The scorer applied to any record                                        *)

InitScore ==
    /\ text = ""
    /\ doc = <<>>
    /\ resume \in Records
    /\ report = None
    /\ pc = "parsed"
    /\ upload = None
    /\ response = None

\* ResumeScorer.score(parsed_data)
ScoreResume ==
    /\ pc = "parsed"
    /\ report' = Some(Score(resume))
    /\ pc' = "scored"
    /\ UNCHANGED <<text, doc, resume, upload, response>>

SpecScore == InitScore /\ [][ScoreResume]_vars

-----------------------------------------------------------------------------
(* The annotator and the phrase matcher (spaCy), as parse uses them        *)

TECH_SKILLS ==
    <<"Python", "Java", "JavaScript", "TypeScript", "C++", "C#", "C", "Go",
      "Rust", "Ruby", "PHP", "Swift", "Kotlin", "Scala", "R", "MATLAB",
      "Perl", "SQL", "Objective-C", "Dart", "Lua", "Haskell", "Clojure",
      "Elixir", "F#", "HTML", "CSS", "SASS", "LESS", "React", "Angular",
      "Vue", "Svelte", "Node.js", "Express", "Next.js", "Nuxt.js", "Gatsby",
      "Django", "Flask", "FastAPI", "Spring", "Spring Boot", "Rails",
      "Laravel", "ASP.NET", "jQuery", "Bootstrap", "Tailwind CSS",
      "Material UI", "Redux", "MobX", "React Native", "Flutter", "iOS",
      "Android", "SwiftUI", "Xamarin", "MySQL", "PostgreSQL", "MongoDB",
      "Redis", "Elasticsearch", "SQLite", "Oracle", "SQL Server", "DynamoDB",
      "Cassandra", "Neo4j", "MariaDB", "Firebase", "Supabase", "CouchDB",
      "InfluxDB", "TimescaleDB", "AWS", "Azure", "GCP", "Google Cloud",
      "Docker", "Kubernetes", "K8s", "Jenkins", "GitLab CI",
      "GitHub Actions", "CircleCI", "Travis CI", "Terraform", "Ansible",
      "Puppet", "Chef", "Linux", "Unix", "Bash", "Nginx", "Apache",
      "Cloudflare", "Heroku", "Vercel", "Netlify", "AWS Lambda", "S3", "EC2",
      "RDS", "CloudFormation", "EKS", "ECS", "TensorFlow", "PyTorch",
      "Scikit-learn", "Pandas", "NumPy", "Keras", "NLP", "Machine Learning",
      "Deep Learning", "Computer Vision", "AI", "Data Science", "Big Data",
      "Spark", "Hadoop", "Tableau", "Power BI", "OpenCV", "NLTK", "spaCy",
      "Hugging Face", "LangChain", "OpenAI", "Data Analysis",
      "Data Engineering", "ETL", "Airflow", "Kafka", "Flink", "Jest",
      "Mocha", "Pytest", "JUnit", "Selenium", "Cypress", "Playwright",
      "Unit Testing", "Integration Testing", "E2E Testing", "TDD", "BDD",
      "Git", "GitHub", "GitLab", "Bitbucket", "SVN", "REST API", "GraphQL",
      "gRPC", "WebSocket", "OAuth", "JWT", "Microservices", "Serverless",
      "Event-Driven", "Domain-Driven Design", "Agile", "Scrum", "Kanban",
      "JIRA", "Confluence", "Trello", "Asana", "CI/CD", "DevOps", "SRE",
      "Monitoring", "Logging", "Prometheus", "Grafana", "RabbitMQ", "SQS",
      "SNS", "Celery", "Redis Queue", "Figma", "Sketch", "Adobe XD",
      "Photoshop", "Illustrator", "VS Code", "IntelliJ", "PyCharm", "Vim",
      "Emacs">>

WordChars == Chars(Word)

\* the spans at position i that the phrase matcher (attr="LOWER") reports: a
\* token can start at position i and can end before position j
MatchesAt(txt, i) ==
    IF ~(i = 1 \/ CharAt(txt, i - 1) \notin WordChars) THEN <<>>
    ELSE LET TokenEnd(j) == j > Len(txt) \/ CharAt(txt, j) \notin WordChars
             hits == SelectSeq(TECH_SKILLS,
                        LAMBDA skill : /\ LitAt(skill, TRUE, txt, i)
                                       /\ TokenEnd(i + Len(skill)))
         IN  [k \in DOMAIN hits |-> Slice(txt, i, i + Len(hits[k]))]

RECURSIVE MatchesIn(_, _, _)
\* the spans that start in lo..hi, from left to right
MatchesIn(txt, lo, hi) ==
    IF lo > hi THEN <<>>
    ELSE IF lo = hi THEN MatchesAt(txt, lo)
    ELSE LET mid == (lo + hi) \div 2
         IN  MatchesIn(txt, lo, mid) \o MatchesIn(txt, mid + 1, hi)

\* doc[start:end].text for the matches of self.skill_matcher(doc)
SkillMatches(txt) == MatchesIn(txt, 1, Len(txt))

\* entities a statistical annotator may report
EntityMenu ==
    <<[label |-> "PERSON", text |-> "John Smith"],
      [label |-> "GPE", text |-> "Acme"]>>

\* self.nlp(text): the annotator recognises the entities of the menu that
\* occur in the text, or misses them
Annotations(txt) ==
    {[ents |-> e, skills |-> SkillMatches(txt)] :
        e \in {<<>>, SelectSeq(EntityMenu, LAMBDA ent : Contains(txt, ent.text))}}

-----------------------------------------------------------------------------
(* Texts handed to the parser                                              *)

MaxBlank == 3

MaxExperienceLines == 3

MaxEducationLines == 3

MaxSkillFragments == 3

MaxCapLines == 21

MaxSectionLines == 3

MaxDetailLines == 2

MaxNameLines == 5

\* the tuples of at most n elements of S
SeqsUpTo(S, n) == UNION {[1..k -> S] : k \in 0..n}

ScenarioText ==
    "John Smith\njohn@x.com\n(555) 123-4567\n\nEXPERIENCE\n"
    \o "Software Engineer at Acme Corp\n2020 - 2022\n^ Built things\n\n"
    \o "EDUCATION\nBachelor of Science in Computer Science\nState University\n2019"

\* the texts parsed: the scenario, blank texts, and for each extractor the texts
\* built from a small menu of lines
Texts ==
    LET BlankTexts == {Join(cs, "") : cs \in SeqsUpTo({" ", "\n", "\t"}, MaxBlank)}

        \* an experience section of at most MaxExperienceLines lines
        ExperienceTexts ==
            LET ExperienceLines ==
                    {"Software Engineer at Acme Corp", "2020 - 2022", "^ Built things",
                     "Acme Corp", "Lead | Initech Jan 2019 - Present"}
            IN  {"EXPERIENCE\n" \o Join(ls, "\n") :
                    ls \in SeqsUpTo(ExperienceLines, MaxExperienceLines)}

        \* at most MaxEducationLines lines, under an education header or under none
        EducationTexts ==
            LET EducationLines ==
                    {"Bachelor of Science in Computer Science", "M.S. in Physics, 2021",
                     "State University", "2019"}
            IN  {h \o Join(ls, "\n") :
                    h \in {"", "EDUCATION\n"},
                    ls \in SeqsUpTo(EducationLines, MaxEducationLines)}

        \* at most MaxSkillFragments fragments, under a skills header or under none
        SkillsTexts ==
            {h \o Join(fs, dl) :
                h \in {"", "SKILLS\n"}, dl \in {", ", "\n"},
                fs \in SeqsUpTo({"Python", "python", "Public speaking"}, MaxSkillFragments)}

        \* texts at the limits of the extractors:
        \* CapTexts: an experience, an education and a certifications section of n
        \*   numbered lines each, for n up to MaxCapLines;
        \* SectionTexts: at most MaxSectionLines lines, each a header or a degree,
        \*   with the last line ended by a newline or not;
        \* DetailTexts: an experience entry followed by at most MaxDetailLines lines
        \*   that open no entry: a rule of dashes, a bullet line, a plain line;
        \* NameTexts: a line that can be a name, after at most MaxNameLines lines
        \*   that are blank or hold digits, or after one line that holds an address
        \*   or is long;
        \* DateTexts: an experience line with a title and a date range, for
        \*   each wording of the start, the separator and the end
        BoundaryTexts ==
            LET Numbered(word, n) == Join([k \in 1..n |-> word \o ToString(k) \o "\n"], "")
                CapTexts ==
                    {"EXPERIENCE\n" \o Numbered("Lead ", n)
                     \o "EDUCATION\n" \o Numbered("MBA ", n)
                     \o "CERTIFICATIONS\n" \o Numbered("^ Cert ", n) : n \in 0..MaxCapLines}
                SectionTexts ==
                    {Join(ls, "\n") \o e :
                        ls \in SeqsUpTo({"SKILLS", "Summary:", "EDUCATION", "MBA"},
                                        MaxSectionLines),
                        e \in {"", "\n"}}
                DetailTexts ==
                    {"EXPERIENCE\nSoftware Engineer at Acme Corp\n" \o Join(ls, "\n") :
                        ls \in SeqsUpTo({"---", "* Shipped it", "Remote"}, MaxDetailLines)}
                NameTexts ==
                    {Join(ls \o <<"Jane Doe">>, "\n") :
                        ls \in SeqsUpTo({"", "007"}, MaxNameLines)}
                    \cup {l \o "\nJane Doe" :
                            l \in {"a@b.co", Repeat("x", 49), Repeat("x", 50)}}
                DateTexts ==
                    {"EXPERIENCE\nLead | " \o from \o sep \o to :
                        from \in {"October 2020", "Jan 2019", "3/2020", "2020"},
                        sep \in {" - ", " to ", "-", " " \o EnDash \o " ", " -- "},
                        to \in {"Present", "2022", "October 2021", "12/2021"}}
            IN  CapTexts \cup SectionTexts \cup DetailTexts \cup NameTexts
                \cup DateTexts
    IN  {ScenarioText} \cup BlankTexts \cup ExperienceTexts \cup EducationTexts
        \cup SkillsTexts \cup BoundaryTexts

-----------------------------------------------------------------------------
(* A text is parsed and the record is scored (routes.export_json)          *)

Init ==
    /\ text \in Texts
    /\ doc = EmptyDoc
    /\ resume = ParsedResume
    /\ report = None
    /\ pc = "start"
    /\ upload = None
    /\ response = None

\* parsed_data = resume_parser.parse(raw_text, include_raw_text=False)
ParseResume ==
    /\ pc = "start"
    /\ \E d \in Annotations(text) :
          /\ doc' = d
          /\ resume' = Parse(text, d, FALSE)
    /\ pc' = "parsed"
    /\ UNCHANGED <<text, report, upload, response>>

Next == ParseResume \/ ScoreResume

Spec == Init /\ [][Next]_vars

-----------------------------------------------------------------------------
(* A file is uploaded to POST /parse (routes.parse_resume)                 *)

\* Settings.allowed_extensions
allowed_extensions == {".pdf"}

\* Settings.max_file_size
max_file_size == 10 * 1024 * 1024

\* "." + file.filename.split(".")[-1].lower() if "." in file.filename else ""
FileExt(filename) ==
    LET parts == SplitOn(filename, ".")
    IN  IF Contains(filename, ".") THEN "." \o Lower(parts[Len(parts)]) ELSE ""

\* DocumentExtractor.extract_text_from_bytes(content, file_type): the text of
\* the document, or the ValueError raised; content.pages is what the decoder
\* of the document library yields, None when it raises
ExtractTextFromBytes(content, file_type) ==
    LET ext == IF file_type # "" /\ Head(file_type) = "."
               THEN Lower(file_type) ELSE "." \o Lower(file_type)
    IN  IF ext \notin {".pdf", ".docx"}
        THEN [raised |-> Some("Unsupported file type: " \o ext), text |-> ""]
        ELSE IF content.pages = None
        THEN [raised |-> Some("Failed to extract text from "
                              \o (IF ext = ".pdf" THEN "PDF" ELSE "DOCX")),
              text |-> ""]
        ELSE [raised |-> None, text |-> content.pages[1]]

\* the requests: file name, content of the file (its length and what the
\* decoder yields), whether the content has been read, and the two flags
Uploads ==
    [filename : {None, Some(""), Some("cv.pdf"), Some("CV.PDF"), Some("cv.docx"),
                 Some("CV.Docx"), Some("cv.txt"), Some("cv"), Some("cv.tar.pdf"),
                 Some("pdf"), Some("cv.pdf.exe")},
     content : [size : {1024, max_file_size + 1},
                pages : {None, Some(" \n"), Some("Jane Doe\nSKILLS\nPython\n")}],
     read : {FALSE},
     include_raw_text : BOOLEAN,
     include_score : BOOLEAN]

InitUpload ==
    /\ text = ""
    /\ doc = EmptyDoc
    /\ resume = ParsedResume
    /\ report = None
    /\ pc = "received"
    /\ upload \in Uploads
    /\ response = None

\* an HTTPException(status_code=400, detail=...)
BadRequest(detail) ==
    [status_code |-> 400, detail |-> Some(detail), success |-> None,
     error |-> None, data |-> None, score |-> None]

\* a ParseResponse, sent with status 200
ParseResponse(success, error, data, score) ==
    [status_code |-> 200, detail |-> None, success |-> Some(success),
     error |-> error, data |-> data, score |-> score]

\* parse_resume up to `await file.read()`: the file type is validated
ValidateUpload ==
    /\ pc = "received"
    /\ IF ~Truthy(upload.filename)
       THEN /\ response' = Some(BadRequest("No filename provided"))
            /\ pc' = "responded"
       ELSE IF FileExt(upload.filename[1]) \notin allowed_extensions
       THEN /\ response' =
                 Some(BadRequest("Invalid file type. Allowed types: ['.pdf']"))
            /\ pc' = "responded"
       ELSE /\ response' = response
            /\ pc' = "reading"
    /\ UNCHANGED <<text, doc, resume, report, upload>>

\* parse_resume from the return of `await file.read()` on: the size is
\* validated, the text extracted, parsed and scored, and the response sent
ReadUpload ==
    /\ pc = "reading"
    /\ upload' = [upload EXCEPT !.read = TRUE]
    /\ pc' = "responded"
    /\ LET content == upload.content
           file_ext == FileExt(upload.filename[1])
           extracted == ExtractTextFromBytes(content, file_ext)
       IN  IF content.size > max_file_size
           THEN /\ response' =
                     Some(BadRequest("File too large. Maximum size: 10MB"))
                /\ UNCHANGED <<text, doc, resume, report>>
           ELSE IF extracted.raised # None
           THEN /\ response' = Some(ParseResponse(FALSE, extracted.raised, None, None))
                /\ UNCHANGED <<text, doc, resume, report>>
           ELSE /\ text' = extracted.text
                /\ IF Strip(text') = ""
                   THEN /\ response' =
                             Some(ParseResponse(FALSE,
                                 Some("Could not extract text from file. The file may be "
                                      \o "image-based or corrupted."), None, None))
                        /\ UNCHANGED <<doc, resume, report>>
                   ELSE /\ \E d \in Annotations(text') : doc' = d
                        /\ resume' = Parse(text', doc', upload.include_raw_text)
                        /\ report' = IF upload.include_score
                                     THEN Some(Score(resume')) ELSE None
                        /\ response' =
                             Some(ParseResponse(TRUE, None, Some(resume'), report'))

SpecUpload == InitUpload /\ [][ValidateUpload \/ ReadUpload]_vars

-----------------------------------------------------------------------------
(* Properties of the scoring engine (checked under SpecScore)              *)

Scored == pc = "scored"

Grades == {"A+", "A", "B", "C", "D", "F"}

\* C1: for every record, total_score equals base_score + bonus_score when
\* that sum is at most 100 and equals 100 otherwise, so it is an integer in
\* 0..100.
C1_TotalIsCappedSum ==
    Scored =>
        LET rep == report[1]
            sum == rep.base_score + rep.bonus_score
        IN  /\ sum <= 100 => rep.total_score = sum
            /\ sum > 100 => rep.total_score = 100
            /\ rep.total_score \in 0..100

\* a scored record whose base and bonus add up to more than 100
C1_Witness ==
    Scored /\ report[1].base_score + report[1].bonus_score > 100

\* C2: the grade is determined by total_score alone: 90 and above A+,
\* 80..89 A, 70..79 B, 60..69 C, 50..59 D, below 50 F.
C2_GradeLadder ==
    Scored =>
        LET t == report[1].total_score
            g == report[1].grade
        IN  /\ t >= 90 => g = "A+"
            /\ t \in 80..89 => g = "A"
            /\ t \in 70..79 => g = "B"
            /\ t \in 60..69 => g = "C"
            /\ t \in 50..59 => g = "D"
            /\ t < 50 => g = "F"

\* a record scored exactly 90
C2_Witness == Scored /\ report[1].total_score = 90

AllSuggestions ==
    <<Suggestions.contact, Suggestions.summary, Suggestions.skills,
      Suggestions.experience,
      Suggestions.education, Suggestions.certifications>>

\* C3: scoring yields a complete report for every record, and for the default
\* record (nothing present, every list empty) the report has total_score 0,
\* grade F, no bonuses and all six suggestions in the order contact, summary,
\* skills, experience, education, certifications.
C3_EmptyRecordReport ==
    Scored =>
        /\ report[1].grade \in Grades
        /\ report[1].total_score \in Int
        /\ DOMAIN report[1].breakdown = DOMAIN WEIGHTS
        /\ resume = ParsedResume =>
            /\ report[1].total_score = 0
            /\ report[1].grade = "F"
            /\ DOMAIN report[1].bonuses = {}
            /\ report[1].bonus_score = 0
            /\ report[1].suggestions = AllSuggestions

\* the default record, scored
C3_Witness == Scored /\ resume = ParsedResume

\* the record of the scoring scenario: 12 skills, 4 experience entries of
\* which 3 are detailed, one education entry with a bachelor's degree, no
\* certifications, no languages, all four contact fields and a summary of
\* 250 characters
IsScenarioRecord(r) ==
    /\ Len(r.skills) = 12
    /\ Len(r.experience) = 4
    /\ CountDetailed(r.experience) = 3
    /\ Len(r.education) = 1
    /\ r.education[1].degree = Some("Bachelor")
    /\ r.certifications = <<>>
    /\ r.languages = <<>>
    /\ ContactFields(r.contact) = 4
    /\ r.summary # None
    /\ Len(r.summary[1]) = 250

\* C10 as stated: the scenario record gets bonus_score 7 and total_score 100.
C10_ScenarioTotalIs100 ==
    (Scored /\ IsScenarioRecord(resume)) =>
        /\ report[1].bonus_score = 7
        /\ report[1].total_score = 100

\* C10, amended: the scenario record gets bonus_score 7 (exactly
\* many_skills = 5 and complete_contact = 2), base_score 90 and total_score
\* 97; the cap at 100 is not reached.
C10_ScenarioTotalIs97 ==
    (Scored /\ IsScenarioRecord(resume)) =>
        /\ report[1].bonuses = [k \in {"many_skills", "complete_contact"} |-> BONUSES[k]]
        /\ report[1].bonus_score = 7
        /\ report[1].base_score = 90
        /\ report[1].total_score = 97

\* the scenario record, scored
C10_Witness == Scored /\ IsScenarioRecord(resume)

\* C12: for every record, each of the seven breakdown entries has
\* 0 <= score <= max, with max 15, 10, 20, 30, 15, 5, 5 for contact, summary,
\* skills, experience, education, certifications, languages, and base_score
\* is the sum of the seven scores, hence at most 100.
C12_BreakdownWithinMax ==
    Scored =>
        LET b == report[1].breakdown
        IN  /\ DOMAIN b = {"contact", "summary", "skills", "experience",
                           "education", "certifications", "languages"}
            /\ \A s \in DOMAIN b : b[s].score \in 0..b[s].max
            /\ b.contact.max = 15
            /\ b.summary.max = 10
            /\ b.skills.max = 20
            /\ b.experience.max = 30
            /\ b.education.max = 15
            /\ b.certifications.max = 5
            /\ b.languages.max = 5
            /\ report[1].base_score
                  = b.contact.score + b.summary.score + b.skills.score
                    + b.experience.score + b.education.score
                    + b.certifications.score + b.languages.score
            /\ report[1].base_score <= 100

\* a record with three certifications whose every section has its maximum
C12_Witness ==
    /\ Scored
    /\ Len(resume.certifications) = 3
    /\ report[1].base_score = 100

\* C13: for every record, the suggestions are exactly the advisory strings of
\* the failing checks among contact score < 10, summary score < 7, skills
\* score < 15, experience score < 22, education score < 10 and no
\* certifications, one for each, in that order and without repetition.
C13_SuggestionsAreFailingChecks ==
    Scored =>
        LET b == report[1].breakdown
            failing ==
                <<b.contact.score < 10, b.summary.score < 7, b.skills.score < 15,
                  b.experience.score < 22, b.education.score < 10,
                  Len(resume.certifications) = 0>>
            idx == SelectSeq(<<1, 2, 3, 4, 5, 6>>, LAMBDA i : failing[i])
            got == report[1].suggestions
        IN  /\ got = [k \in DOMAIN idx |-> AllSuggestions[idx[k]]]
            /\ \A i, j \in DOMAIN got : i # j => got[i] # got[j]

\* a record with 10 skill points that fails the skills check and passes others
C13_Witness ==
    /\ Scored
    /\ report[1].breakdown.skills.score = 10
    /\ Len(report[1].suggestions) \in 1..5

\* C14: for every record, the bonuses mapping has a key exactly when its
\* check is triggered, with the fixed points: many_skills = 5 iff at least 10
\* skills, senior_exp = 5 iff at least 5 experience entries, advanced_degree
\* = 5 iff some degree contains, whatever the case, master, mba, ph.d, phd or
\* doctorate, certifications = 3 iff at least one certification,
\* complete_contact = 2 iff name, email, phone and linkedin are all present;
\* bonus_score is the sum of the values of the mapping, at most 20.
C14_BonusesAreTriggeredChecks ==
    Scored =>
        LET b == report[1].bonuses
            c == resume.contact
            points ==
                [many_skills |-> 5, senior_exp |-> 5, advanced_degree |-> 5,
                 certifications |-> 3, complete_contact |-> 2]
            advanced ==
                \E i \in DOMAIN resume.education :
                    \E adv \in {"master", "mba", "ph.d", "phd", "doctorate"} :
                        /\ resume.education[i].degree # None
                        /\ Contains(Lower(resume.education[i].degree[1]), adv)
            keys == DOMAIN points
        IN  /\ DOMAIN b \subseteq keys
            /\ \A k \in DOMAIN b : b[k] = points[k]
            /\ "many_skills" \in DOMAIN b <=> Len(resume.skills) >= 10
            /\ "senior_exp" \in DOMAIN b <=> Len(resume.experience) >= 5
            /\ "advanced_degree" \in DOMAIN b <=> advanced
            /\ "certifications" \in DOMAIN b <=> Len(resume.certifications) >= 1
            /\ "complete_contact" \in DOMAIN b <=>
                  /\ Truthy(c.name)
                  /\ Truthy(c.email)
                  /\ Truthy(c.phone)
                  /\ Truthy(c.linkedin)
            /\ report[1].bonus_score
                  = (IF "many_skills" \in DOMAIN b THEN b.many_skills ELSE 0)
                    + (IF "senior_exp" \in DOMAIN b THEN b.senior_exp ELSE 0)
                    + (IF "advanced_degree" \in DOMAIN b THEN b.advanced_degree ELSE 0)
                    + (IF "certifications" \in DOMAIN b THEN b.certifications ELSE 0)
                    + (IF "complete_contact" \in DOMAIN b THEN b.complete_contact ELSE 0)
            /\ report[1].bonus_score <= 20

\* a record with a degree written in capitals that earns all five bonuses
C14_Witness ==
    /\ Scored
    /\ report[1].bonus_score = 20
    /\ \E i \in DOMAIN resume.education : resume.education[i].degree = Some("MBA")

\* the number of entries with a non-empty title, a non-empty company, and a
\* non-empty description or at least one highlight
DetailedEntries(experience) ==
    Cardinality({i \in DOMAIN experience :
        /\ experience[i].title \notin {None, Some("")}
        /\ experience[i].company \notin {None, Some("")}
        /\ \/ experience[i].description \notin {None, Some("")}
           \/ Len(experience[i].highlights) >= 1})

\* C22: for every record, the experience score is 30 with at least 3 entries
\* of which at least 2 are detailed, else 22 with at least 2 entries of which
\* at least 1 is detailed, else 15 with at least 1 entry, else 0; an entry is
\* detailed iff it has a non-empty title, a non-empty company, and a non-empty
\* description or at least one highlight.
C22_ExperienceLadder ==
    Scored =>
        LET n == Len(resume.experience)
            detailed == DetailedEntries(resume.experience)
            score == report[1].breakdown.experience.score
        IN  /\ (n >= 3 /\ detailed >= 2) => score = 30
            /\ (~(n >= 3 /\ detailed >= 2) /\ n >= 2 /\ detailed >= 1) => score = 22
            /\ (~(n >= 3 /\ detailed >= 2) /\ ~(n >= 2 /\ detailed >= 1) /\ n >= 1)
                  => score = 15
            /\ n = 0 => score = 0

\* four entries, one detailed by a description, the others with no company,
\* with an empty title and with an empty description: 22 points
C22_Witness ==
    /\ Scored
    /\ Len(resume.experience) = 4
    /\ DetailedEntries(resume.experience) = 1
    /\ report[1].breakdown.experience.score = 22
    /\ resume.experience[1].description = Some("Remote")
    /\ resume.experience[2].company = None
    /\ resume.experience[3].title = Some("")
    /\ resume.experience[4].description = Some("")

\* the records got from r by one of: giving an absent contact field a value,
\* lengthening the summary (an absent summary has length 0), appending an
\* element to one of the five lists
Enriched(r) ==
    LET fields == {"name", "email", "phone", "linkedin"}
        entries ==
            {DetailedExp, PlainExp, [WorkExperience EXCEPT !.company = Some("Acme")]}
        degrees == {None, Some(""), Some("Bachelor"), Some("MBA")}
    IN  {[r EXCEPT !.contact[f] = Some("x")] : f \in {g \in fields : r.contact[g] = None}}
        \cup {[r EXCEPT !.summary = Some(OrEmpty(r.summary) \o Repeat("x", k))] :
                 k \in {1, 10, 50, 100, 200}}
        \cup {[r EXCEPT !.skills = Append(@, "Skill")]}
        \cup {[r EXCEPT !.experience = Append(@, e)] : e \in entries}
        \cup {[r EXCEPT !.education = Append(@, [Education EXCEPT !.degree = d])] :
                 d \in degrees}
        \cup {[r EXCEPT !.certifications = Append(@, "Cert")]}
        \cup {[r EXCEPT !.languages = Append(@, "Lang")]}

\* C23: for every record, giving an absent contact field (name, email, phone
\* or linkedin) a value, lengthening the summary, or appending an element to
\* skills, experience, education, certifications or languages never
\* decreases any of the seven section scores, base_score, bonus_score or
\* total_score.
C23_ScoreIsMonotone ==
    Scored =>
        \A r2 \in Enriched(resume) :
            LET after == Score(r2)
            IN  /\ \A s \in DOMAIN report[1].breakdown :
                      after.breakdown[s].score >= report[1].breakdown[s].score
                /\ after.base_score >= report[1].base_score
                /\ after.bonus_score >= report[1].bonus_score
                /\ after.total_score >= report[1].total_score

\* a record one skill short of a step of the ladder and of the bonus: a tenth
\* skill raises the skills score and the bonus, another change leaves the
\* total as it is
C23_Witness ==
    /\ Scored
    /\ Len(resume.skills) = 9
    /\ \E r2 \in Enriched(resume) :
          /\ Score(r2).breakdown.skills.score > report[1].breakdown.skills.score
          /\ Score(r2).bonus_score > report[1].bonus_score
    /\ \E r2 \in Enriched(resume) : Score(r2).total_score = report[1].total_score

-----------------------------------------------------------------------------
(* Properties of the extraction engine (checked under Spec)                *)

\* parse has just returned the record
Parsed == pc = "parsed"

\* the lines of s, trimmed, without the empty ones
NonBlankLines(s) ==
    LET lines == SplitOn(s, "\n")
    IN  SelectSeq([k \in DOMAIN lines |-> Strip(lines[k])], LAMBDA line : line # "")

\* C4: parse on the empty string or on whitespace-only text, with an
\* annotator that returns no entities, returns a record in which
\* contact.name, email, phone, linkedin, location and summary are absent and
\* skills, experience, education, certifications and languages are empty.
C4_BlankTextGivesEmptyRecord ==
    (Parsed /\ Strip(text) = "" /\ doc.ents = <<>>) =>
        /\ resume.contact.name = None
        /\ resume.contact.email = None
        /\ resume.contact.phone = None
        /\ resume.contact.linkedin = None
        /\ resume.contact.location = None
        /\ resume.summary = None
        /\ resume.skills = <<>>
        /\ resume.experience = <<>>
        /\ resume.education = <<>>
        /\ resume.certifications = <<>>
        /\ resume.languages = <<>>

\* a whitespace-only text of several lines has been parsed
C4_Witness ==
    /\ Parsed
    /\ Strip(text) = ""
    /\ Contains(text, "\n")
    /\ doc.ents = <<>>

\* C5: for every input text, the skills list (the phrase matches together
\* with the delimiter-split fragments of the skills section) is in strictly
\* ascending lexicographic order, so it is sorted and no two elements are
\* equal.
C5_SkillsSortedNoDuplicates ==
    Parsed =>
        /\ \A i \in 1..(Len(resume.skills) - 1) :
              StrLess(resume.skills[i], resume.skills[i + 1])
        /\ \A i, j \in DOMAIN resume.skills :
              i # j => resume.skills[i] # resume.skills[j]
        /\ Range(doc.skills) \subseteq Range(resume.skills)

\* a phrase was matched twice and the list has a fragment that is no match
C5_Witness ==
    /\ Parsed
    /\ Len(doc.skills) > Cardinality(Range(doc.skills))
    /\ Len(resume.skills) >= 2
    /\ Range(resume.skills) \ Range(doc.skills) # {}

\* the non-blank lines of the experience section, <<>> without a section
ExperienceSectionLines(txt) ==
    LET exp_section == GetSectionText(txt, "experience")
    IN  IF Truthy(exp_section) THEN NonBlankLines(exp_section[1]) ELSE <<>>

\* what the line opens: "none" for no entry, "empty" for an entry with
\* neither a title nor a company, "entry" for any other entry
Opens(line) ==
    LET date_match == Search(date_pattern, TRUE, line)
    IN  IF date_match = None /\ ~LooksLikeJobTitle(line) THEN "none"
        ELSE LET e == NewExperience(line, date_match)
             IN  IF Truthy(e.title) \/ Truthy(e.company) THEN "entry" ELSE "empty"

\* C6: for every sequence of lines in the experience section, every entry of
\* the experience list has a non-empty title or a non-empty company; the
\* entries are those of the opening lines that leave a title or a company,
\* so an entry opened by a line that is only a date range is not in the list.
C6_ExperienceEntriesHaveTitleOrCompany ==
    Parsed =>
        LET lines == ExperienceSectionLines(text)
            kept == SelectSeq(lines, LAMBDA line : Opens(line) = "entry")
        IN  /\ \A k \in DOMAIN resume.experience :
                  \/ Truthy(resume.experience[k].title)
                  \/ Truthy(resume.experience[k].company)
            /\ Len(resume.experience) = Min(Len(kept), 10)

\* a section with a line that is only a date range and a line with a title
C6_Witness ==
    /\ Parsed
    /\ resume.experience # <<>>
    /\ LET lines == ExperienceSectionLines(text)
       IN  \E k \in DOMAIN lines : Opens(lines[k]) = "empty"

\* the non-blank lines that the education scan reads
EducationScanLines(txt) ==
    LET found == GetSectionText(txt, "education")
    IN  NonBlankLines(IF Truthy(found) THEN found[1] ELSE txt)

\* the number of degree lines among the first n lines
RECURSIVE DegreeLinesUpTo(_, _)
DegreeLinesUpTo(lines, n) ==
    IF n = 0 THEN 0
    ELSE DegreeLinesUpTo(lines, n - 1) + (IF HasDegree(lines[n]) THEN 1 ELSE 0)

\* C7: a degree line that directly follows a degree line makes the entry of
\* the first be appended without an institution; so a text whose lines are
\* two consecutive degree lines gives two entries, both with absent
\* institution.
C7_TwoDegreeLinesTwoEntries ==
    Parsed =>
        LET lines == EducationScanLines(text)
        IN  /\ \A j \in 1..(Len(lines) - 1) :
                  (HasDegree(lines[j]) /\ HasDegree(lines[j + 1])) =>
                      LET n == DegreeLinesUpTo(lines, j)
                      IN  n + 1 <= 5 =>
                            /\ Len(resume.education) >= n + 1
                            /\ resume.education[n].institution = None
            /\ (Len(lines) = 2 /\ HasDegree(lines[1]) /\ HasDegree(lines[2])) =>
                  /\ Len(resume.education) = 2
                  /\ resume.education[1].institution = None
                  /\ resume.education[2].institution = None

\* the text is two different degree lines under an education header
C7_Witness ==
    /\ Parsed
    /\ Truthy(GetSectionText(text, "education"))
    /\ LET lines == EducationScanLines(text)
       IN  /\ Len(lines) = 2
           /\ HasDegree(lines[1])
           /\ HasDegree(lines[2])
           /\ lines[1] # lines[2]

\* the experience section is the three lines of the scenario
IsScenarioExperience(txt) ==
    ExperienceSectionLines(txt)
        = <<"Software Engineer at Acme Corp", "2020 - 2022", Bullet \o " Built things">>

\* C8 as stated: the scenario's experience section gives exactly one entry,
\* with title "Software Engineer", company "Acme Corp" and the one highlight
\* "Built things".
C8_ScenarioHighlightKept ==
    (Parsed /\ IsScenarioExperience(text)) =>
        /\ Len(resume.experience) = 1
        /\ resume.experience[1].title = Some("Software Engineer")
        /\ resume.experience[1].company = Some("Acme Corp")
        /\ resume.experience[1].highlights = <<"Built things">>

\* C8, amended: the scenario's experience section gives exactly one entry,
\* with title "Software Engineer" and company "Acme Corp", and that entry has
\* no highlight: the date line opens a second entry, which takes the bullet
\* and is dropped for having neither title nor company.
C8_ScenarioHighlightLost ==
    (Parsed /\ IsScenarioExperience(text)) =>
        /\ Len(resume.experience) = 1
        /\ resume.experience[1].title = Some("Software Engineer")
        /\ resume.experience[1].company = Some("Acme Corp")
        /\ resume.experience[1].highlights = <<>>

\* the scenario text has been parsed and has an experience entry
C8_Witness ==
    /\ Parsed
    /\ text = ScenarioText
    /\ IsScenarioExperience(text)
    /\ resume.experience # <<>>

\* the lines that the education scan reads are the three of the scenario
IsScenarioEducation(txt) ==
    EducationScanLines(txt)
        = <<"Bachelor of Science in Computer Science", "State University", "2019">>

\* C9 as stated: the scenario's education section gives exactly one entry,
\* whose degree is "Bachelor", whose field_of_study contains "Computer
\* Science", whose institution is "State University" and whose end_date is
\* "2019".
C9_ScenarioYearKept ==
    (Parsed /\ IsScenarioEducation(text)) =>
        /\ Len(resume.education) = 1
        /\ resume.education[1].degree = Some("Bachelor")
        /\ Truthy(resume.education[1].field_of_study)
        /\ Contains(resume.education[1].field_of_study[1], "Computer Science")
        /\ resume.education[1].institution = Some("State University")
        /\ resume.education[1].end_date = Some("2019")

\* C9, amended: the scenario's education section gives exactly one entry,
\* whose degree is "Bachelor", whose field_of_study contains "Computer
\* Science" and whose institution is "State University"; its end_date is
\* absent, because the year is looked for on the degree line only.
C9_ScenarioYearLost ==
    (Parsed /\ IsScenarioEducation(text)) =>
        /\ Len(resume.education) = 1
        /\ resume.education[1].degree = Some("Bachelor")
        /\ Truthy(resume.education[1].field_of_study)
        /\ Contains(resume.education[1].field_of_study[1], "Computer Science")
        /\ resume.education[1].institution = Some("State University")
        /\ resume.education[1].end_date = None

\* the scenario text has been parsed and has an education entry
C9_Witness ==
    /\ Parsed
    /\ text = ScenarioText
    /\ IsScenarioEducation(text)
    /\ resume.education # <<>>

\* the entries the experience scan retains, before the cap
ExperienceRetained(txt) ==
    LET exp_section == GetSectionText(txt, "experience")
        st == ExperienceScan([current_exp |-> None, experiences |-> <<>>],
                             SplitOn(OrEmpty(exp_section), "\n"))
    IN  IF Truthy(exp_section) THEN Flushed(st.experiences, st.current_exp)
        ELSE <<>>

\* the entries the education scan retains, before the cap
EducationRetained(txt) ==
    LET st == EducationScan([current_edu |-> None, education_list |-> <<>>],
                            EducationScanLines(txt))
    IN  IF st.current_edu # None
        THEN Append(st.education_list, st.current_edu[1])
        ELSE st.education_list

\* the lines of the certifications section that are kept, before the cap
CertificationsRetained(txt) ==
    LET cert_section == GetSectionText(txt, "certifications")
        lines == NonBlankLines(OrEmpty(cert_section))
        cleaned == [k \in DOMAIN lines |-> LStrip(lines[k], BulletChars)]
    IN  SelectSeq(cleaned, LAMBDA line : line # "" /\ Len(line) < 200)

\* got is the first cap elements of all, or all of it when it has fewer
IsCapped(got, all, cap) ==
    /\ Len(got) <= cap
    /\ Len(got) <= Len(all)
    /\ \A k \in DOMAIN got : got[k] = all[k]
    /\ Len(got) < cap => Len(got) = Len(all)

\* C15: for every input text, the record has at most 10 experience entries,
\* at most 5 education entries and at most 20 certifications, and each list
\* is the first entries, in document order, of what its line scan retains
\* without the cap.
C15_ListsAreCappedPrefixes ==
    Parsed =>
        /\ IsCapped(resume.experience, ExperienceRetained(text), 10)
        /\ IsCapped(resume.education, EducationRetained(text), 5)
        /\ IsCapped(resume.certifications, CertificationsRetained(text), 20)

\* a text whose three scans each retain more than the cap
C15_Witness ==
    /\ Parsed
    /\ Len(resume.experience) = 10
    /\ resume.experience[10].title = Some("Lead 10")
    /\ Len(resume.education) = 5
    /\ Len(resume.certifications) = 20
    /\ resume.certifications[20] = "Cert 20"
    /\ Len(ExperienceRetained(text)) > 10
    /\ Len(EducationRetained(text)) > 5
    /\ Len(CertificationsRetained(text)) > 20

\* the header occurrences of a text: the matches that the left-to-right scan
\* for each section's header pattern records
HeaderOccurrences(txt) ==
    UNION {{[start |-> m[1], end |-> m[2], section |-> SECTION_HEADERS[k].name] :
              m \in Range(FindAll(SectionPatterns[k], TRUE, txt))} :
           k \in DOMAIN SECTION_HEADERS}

\* the section text as C17 describes it
SectionAsDescribed(txt, section_name) ==
    LET occ == HeaderOccurrences(txt)
        mine == {h \in occ : h.section = section_name}
    IN  IF mine = {} THEN None
        ELSE LET first == CHOOSE h \in mine : \A g \in mine : h.start <= g.start
                 later == {h \in occ : h.start > first.start}
                 stop == IF later = {} THEN Len(txt) + 1
                         ELSE (CHOOSE h \in later :
                                  \A g \in later : h.start <= g.start).start
             IN  Some(Strip(Slice(txt, first.end, stop)))

\* C17: for every text and section name, _get_section_text returns absent
\* when no header of the section occurs; otherwise it returns the trimmed
\* text from the end of the header line of the section's first occurrence to
\* the start of the next header occurrence of any section, a later header of
\* the same section included, or to the end of the text if no header
\* follows. The summary of the record is present exactly when that text of
\* the summary section is not empty.
C17_SectionRunsToNextHeader ==
    Parsed =>
        /\ \A k \in DOMAIN SECTION_HEADERS :
              GetSectionText(text, SECTION_HEADERS[k].name)
                  = SectionAsDescribed(text, SECTION_HEADERS[k].name)
        /\ resume.summary # None <=> Truthy(SectionAsDescribed(text, "summary"))

\* a section with text that is ended by a later header of the same section
C17_Witness ==
    /\ Parsed
    /\ Truthy(GetSectionText(text, "summary"))
    /\ resume.summary = Some("MBA")
    /\ Cardinality({h \in HeaderOccurrences(text) : h.section = "summary"}) = 2
    /\ Cardinality(HeaderOccurrences(text)) = 2

\* the entries the education scan retains from the lines of s, before the cap
EducationRetainedFrom(s) ==
    LET st == EducationScan([current_edu |-> None, education_list |-> <<>>],
                            NonBlankLines(s))
    IN  IF st.current_edu # None
        THEN Append(st.education_list, st.current_edu[1])
        ELSE st.education_list

\* an education header occurs in the text
EducationHeaderFound(txt) ==
    \E h \in HeaderOccurrences(txt) : h.section = "education"

\* C18 as stated: the education extractor scans the whole document if and
\* only if no education header was found; when a header is found, even with
\* an empty section body, only the lines of that body produce entries.
C18_FallbackOnlyWithoutHeader ==
    Parsed =>
        IF EducationHeaderFound(text)
        THEN IsCapped(resume.education,
                      EducationRetainedFrom(SectionAsDescribed(text, "education")[1]), 5)
        ELSE IsCapped(resume.education, EducationRetainedFrom(text), 5)

\* C18, amended: the education extractor scans the whole document if and only
\* if no education header was found or the body of the education section is
\* empty after trimming; when a header with a non-empty body is found, only
\* the lines of that body produce entries.
C18_FallbackWithoutSectionText ==
    Parsed =>
        LET body == SectionAsDescribed(text, "education")
        IN  IF EducationHeaderFound(text) /\ body[1] # ""
            THEN IsCapped(resume.education, EducationRetainedFrom(body[1]), 5)
            ELSE IsCapped(resume.education, EducationRetainedFrom(text), 5)

\* an education header with an empty body, and a degree line elsewhere that
\* has produced an entry
C18_Witness ==
    /\ Parsed
    /\ EducationHeaderFound(text)
    /\ SectionAsDescribed(text, "education") = Some("")
    /\ resume.education # <<>>

\* the line starts with one of the bullet glyphs
IsBulletLine(line) == Head(line) \in {Bullet, "-", "*", BlackCircle, WhiteCircle}

\* the entries that C19 describes for the non-blank lines of an experience
\* section: one for each line that opens an entry, with the bullet lines up
\* to the next opening line as its highlights and the other lines, joined by
\* single spaces, as its description; lines before the first opening line go
\* nowhere; entries with neither title nor company are left out. With
\* keep_empty a bullet line that is nothing but glyphs is a highlight too.
ExperienceAsDescribed(lines, keep_empty) ==
    LET n == Len(lines)
        triggers == SelectSeq([i \in 1..n |-> i], LAMBDA i : Opens(lines[i]) # "none")
        EntryAt(t) ==
            LET i == triggers[t]
                stop == IF t < Len(triggers) THEN triggers[t + 1] ELSE n + 1
                details == SubSeq(lines, i + 1, stop - 1)
                bullets == SelectSeq(details, IsBulletLine)
                stripped == [k \in DOMAIN bullets |->
                                Strip(LStrip(bullets[k], BulletChars))]
                plain == SelectSeq(details, LAMBDA line : ~IsBulletLine(line))
            IN  [NewExperience(lines[i], Search(date_pattern, TRUE, lines[i])) EXCEPT
                    !.highlights = IF keep_empty THEN stripped
                                   ELSE SelectSeq(stripped, LAMBDA h : h # ""),
                    !.description = IF plain = <<>> THEN None
                                    ELSE Some(Join(plain, " "))]
        entries == [t \in DOMAIN triggers |-> EntryAt(t)]
    IN  SelectSeq(entries, LAMBDA e : Truthy(e.title) \/ Truthy(e.company))

\* C19 as stated: in the experience scan every non-blank line that opens no
\* entry and is seen while an entry is open is recorded in the most recently
\* opened entry and nowhere else, as a highlight with the glyphs stripped if
\* it starts with a bullet glyph, otherwise appended to the description with
\* a single space; such lines before the first opening line are recorded
\* nowhere; highlights and retained entries are in document order.
C19_EveryDetailLineRecorded ==
    Parsed =>
        IsCapped(resume.experience,
                 ExperienceAsDescribed(ExperienceSectionLines(text), TRUE), 10)

\* C19, amended: as stated, except that a bullet line of which nothing is
\* left once the leading bullet glyphs and spaces are stripped is recorded
\* nowhere.
C19_DetailLinesGoToLatestEntry ==
    Parsed =>
        IsCapped(resume.experience,
                 ExperienceAsDescribed(ExperienceSectionLines(text), FALSE), 10)

\* an entry followed by a rule of dashes and a bullet line that is kept
C19_Witness ==
    /\ Parsed
    /\ ExperienceSectionLines(text)
          = <<"Software Engineer at Acme Corp", "---", "* Shipped it">>
    /\ Len(resume.experience) = 1
    /\ resume.experience[1].highlights = <<"Shipped it">>

\* the first of the first 5 of the lines that is under 50 characters, holds
\* no address and no digit, or None
FirstNameAmong(lines) ==
    LET first5 == SubSeq(lines, 1, Min(5, Len(lines)))
        ok == SelectSeq(first5,
                  LAMBDA line :
                      /\ line # ""
                      /\ Len(line) < 50
                      /\ Search(email_pattern, FALSE, line) = None
                      /\ \A i \in 1..Len(line) : ~Contains("0123456789", SubSeq(line, i, i)))
    IN  IF ok = <<>> THEN None ELSE Some(ok[1])

\* the annotator has returned no person entity
NoPerson == \A k \in DOMAIN doc.ents : doc.ents[k].label # "PERSON"

\* C20 as stated: when the annotator returns no person entity, contact.name
\* is the first line, among the first 5 non-empty lines of the text, that is
\* under 50 characters, does not match the email pattern and contains no
\* digit; blank lines do not count toward the 5.
C20_NameAmongFiveNonEmptyLines ==
    (Parsed /\ NoPerson) =>
        resume.contact.name = FirstNameAmong(NonBlankLines(text))

\* C20, amended: when the annotator returns no person entity, contact.name is
\* the first line, among the first 5 lines of the trimmed text, that is not
\* blank, is under 50 characters, does not match the email pattern and
\* contains no digit; blank lines inside the text count toward the 5, and
\* name is absent if none of those 5 lines qualifies.
C20_NameAmongFiveLines ==
    (Parsed /\ NoPerson) =>
        LET lines == SplitOn(Strip(text), "\n")
        IN  resume.contact.name
                = FirstNameAmong([k \in DOMAIN lines |-> Strip(lines[k])])

\* the name is absent although the second non-empty line could be a name,
\* because four blank lines come before it
C20_Witness ==
    /\ Parsed
    /\ NoPerson
    /\ resume.contact.name = None
    /\ NonBlankLines(text) = <<"007", "Jane Doe">>

-----------------------------------------------------------------------------
(* Properties of the upload route (checked under SpecUpload)               *)

\* the file name ends, whatever the case, with the suffix
HasExtension(filename, suffix) ==
    /\ Len(filename) >= Len(suffix)
    /\ Lower(SubSeq(filename, Len(filename) - Len(suffix) + 1, Len(filename)))
          = suffix

\* C16: POST /parse accepts an upload whose file name has the extension .pdf
\* or .docx, whatever the case, and goes on to read the content and extract
\* the text for both; an upload with no file name or any other extension is
\* rejected with HTTP 400 before the content is read.
C16_PdfAndDocxAccepted ==
    pc = "responded" =>
        IF /\ Truthy(upload.filename)
           /\ \/ HasExtension(upload.filename[1], ".pdf")
              \/ HasExtension(upload.filename[1], ".docx")
        THEN /\ upload.read
             /\ upload.content.size <= max_file_size => response[1].status_code = 200
        ELSE /\ response[1].status_code = 400
             /\ ~upload.read

-----------------------------------------------------------------------------
(* Properties of the dates of an experience entry (checked under Spec)     *)

\* the start and the end of a matched date range as the date pattern reads
\* them: <start> <separator> <end>, with <start> and <end> the alternatives
\* of the pattern and <separator> the dashes or "to" with the blanks around
DateRangeParts(dates) ==
    LET sep == Cat(<<Star(Set(Space)),
                     Plus(Set("-" \o EnDash \o EmDash \o "to")), Star(Set(Space))>>)
        end == Alt(DatePoint \o <<Lit("present"), Lit("current")>>)
        e1 == Head(SelectSeq(Ends(Alt(DatePoint), TRUE, dates, 1),
                             LAMBDA e : Ends(Cat(<<sep, end>>), TRUE, dates, e) # <<>>))
        e2 == Head(SelectSeq(Ends(sep, TRUE, dates, e1),
                             LAMBDA e : Ends(end, TRUE, dates, e) # <<>>))
    IN  [start_date |-> Strip(Slice(dates, 1, e1)),
         end_date |-> Strip(Slice(dates, e2, Len(dates) + 1))]

\* C21: when a line that opens an experience entry contains a date range,
\* the start_date of the entry is the trimmed text of the range before the
\* separator and its end_date the trimmed text after the separator, for every
\* wording of start and end the date pattern accepts, month names such as
\* "October 2020 - Present" included.
C21_DatesAreTheTrimmedRangeParts ==
    Parsed =>
        LET lines == ExperienceSectionLines(text)
            kept == SelectSeq(lines, LAMBDA line : Opens(line) = "entry")
        IN  \A k \in DOMAIN resume.experience :
                LET date_match == Search(date_pattern, TRUE, kept[k])
                IN  date_match # None =>
                        LET parts == DateRangeParts(Group(kept[k], date_match))
                        IN  /\ resume.experience[k].start_date = Some(parts.start_date)
                            /\ resume.experience[k].end_date = Some(parts.end_date)

-----------------------------------------------------------------------------
(* Properties of the score of a parsed record (checked under Spec)         *)

\* C24: every education entry that parse produces has a non-empty degree; so
\* for the record of any text the education score is 0, with no entry, or 15,
\* never 10, and the education suggestion is given exactly when the education
\* list is empty.
C24_ParsedEducationScores0Or15 ==
    Scored =>
        /\ \A i \in DOMAIN resume.education :
              resume.education[i].degree \notin {None, Some("")}
        /\ report[1].breakdown.education.score
              = (IF resume.education = <<>> THEN 0 ELSE 15)
        /\ (\E k \in DOMAIN report[1].suggestions :
               report[1].suggestions[k]
                   = "Include education details with degree and institution")
              <=> resume.education = <<>>

\* an education section of a line without a degree, then a degree line: one
\* entry, 15 points and no education suggestion
C24_Witness ==
    /\ Scored
    /\ LET lines == EducationScanLines(text)
       IN  /\ Len(lines) >= 2
           /\ ~HasDegree(lines[1])
           /\ HasDegree(lines[2])
    /\ Len(resume.education) = 1
    /\ report[1].breakdown.education.score = 15
    /\ \A k \in DOMAIN report[1].suggestions :
          report[1].suggestions[k]
              # "Include education details with degree and institution"

====
